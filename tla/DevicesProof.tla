---------------------------- MODULE DevicesProof ----------------------------
(***************************************************************************)
(* Proofs about the drivers: the disk, for any number of threads, sectors,   *)
(* requests and failures of the medium; the console, for any number of        *)
(* writers, readers and CPUs that poll and any size of its input buffer;      *)
(* the bus, for any cards in any number of slots and any CPUs; and the        *)
(* emulator, for any threads, handles, calls and errors.                      *)
(***************************************************************************)
EXTENDS Disk, Console, Lamebus, Emu, TLAPS, FiniteSetTheorems, SequenceTheorems, WellFoundedInduction

-----------------------------------------------------------------------------
(* The disk *)

Whose == DiskThread \union {Nobody}
IoRecord == [at : {"idle", "clear", "fill", "kick", "done", "drain", "pass", "return"},
             write : BOOLEAN, sfs : BOOLEAN, sector : Nat, i : Nat, len : Nat, resid : Nat,
             tries : Nat, reached : BOOLEAN, result : {"ok", "EIO", "EINVAL", "EFAULT"}]

DiskTypes ==
    /\ lh_clear \in Nat /\ lh_done \in Nat /\ lh_result \in {"ok", "EIO"}
    /\ lh_reg \in [stat : {"idle", "working", "ok", "media"}, write : BOOLEAN, sect : Nat]
    /\ lh_buf \in Whose /\ irqline \in BOOLEAN
    /\ sectors \in [Sector -> Whose]
    /\ io \in [DiskThread -> IoRecord]

\* lh_clear admits one thread, and is up when nobody is inside.
OneInside ==
    /\ lh_clear \in {0, 1}
    /\ lh_clear = 1 <=> \A t \in DiskThread : ~Inside(t)
    /\ \A t, u \in DiskThread : Inside(t) /\ Inside(u) => t = u

\* What is left of a request says how many of its sectors are done; a request
\* of SFS is for one sector of the disk, however often it is tried.
ResidExact(r) ==
    /\ r.at \in {"clear", "fill", "kick", "done", "drain", "pass"} =>
         r.i < r.len /\ r.sector + r.len <= D_BLOCKS
    /\ r.at \in {"clear", "fill", "drain"} => r.resid = r.len - r.i
    /\ r.at \in {"kick", "done"} => r.resid = IF r.write THEN r.len - r.i - 1 ELSE r.len - r.i
    /\ r.at = "pass" => /\ r.resid \in {r.len - r.i - 1, r.len - r.i}
                        /\ r.result = "ok" => r.resid = r.len - r.i - 1
    /\ (r.at = "fill" => r.write) /\ (r.at = "drain" => ~r.write)
    /\ r.sfs => /\ r.resid <= 1 /\ r.len <= 1 /\ r.result # "EINVAL"
                /\ r.result = "EIO" => r.sector < D_BLOCKS

RequestsExact == \A t \in DiskThread : ResidExact(io[t])

\* The sector that t works on, and that its data is there (or here).
Where(t) == io[t].sector + io[t].i
Transferred(t) == IF io[t].write THEN sectors[Where(t)] = t ELSE lh_buf = sectors[Where(t)]

\* The card of the thread that waits for it: working, asserting its line, or
\* done and reported.
CardOf(t) ==
    /\ lh_reg.write = io[t].write /\ lh_reg.sect = Where(t)
    /\ \/ lh_reg.stat = "working" /\ ~irqline /\ lh_done = 0 /\ (io[t].write => lh_buf = t)
       \/ lh_reg.stat \in {"ok", "media"} /\ irqline /\ lh_done = 0
            /\ (lh_reg.stat = "ok" => Transferred(t))
       \/ lh_reg.stat = "idle" /\ ~irqline /\ lh_done = 1 /\ (lh_result = "ok" => Transferred(t))

CardExact ==
    /\ \A t \in DiskThread :
         /\ io[t].at = "kick" /\ io[t].write => lh_buf = t
         /\ io[t].at = "done" => CardOf(t)
         /\ io[t].at = "drain" => /\ Transferred(t)
                                  /\ lh_reg.write = FALSE /\ lh_reg.sect = Where(t)
         /\ io[t].at = "pass" /\ io[t].write /\ io[t].result = "ok" => Transferred(t)
    /\ (\A t \in DiskThread : io[t].at # "done") => lh_reg.stat = "idle" /\ lh_done = 0 /\ ~irqline

DiskInv == DiskTypes /\ OneInside /\ RequestsExact /\ CardExact

\* A request moves from one record to another.
Moved(t, r) == io' = [io EXCEPT ![t] = r]

LEMMA MovedIs ==
    ASSUME DiskTypes, NEW t \in DiskThread, NEW r \in IoRecord, Moved(t, r)
    PROVE  /\ io' \in [DiskThread -> IoRecord] /\ io'[t] = r
           /\ \A u \in DiskThread : u # t => io'[u] = io[u]
BY DEF DiskTypes, Moved

\* Requests stay exact when the one that moves does.
LEMMA RequestsKept ==
    ASSUME DiskTypes, RequestsExact, NEW t \in DiskThread, NEW r \in IoRecord, Moved(t, r), ResidExact(r)
    PROVE  RequestsExact'
<1>1. io'[t] = r /\ \A u \in DiskThread : u # t => io'[u] = io[u]
  BY MovedIs
<1>2. \A u \in DiskThread : ResidExact(io'[u])
  BY <1>1 DEF RequestsExact
<1> QED BY <1>2 DEF RequestsExact

InPhases == {"fill", "kick", "done", "drain", "pass"}

\* Moves inside the card's section, into it and out of it.
LEMMA InsideKept ==
    ASSUME DiskTypes, OneInside, NEW t \in DiskThread, NEW r \in IoRecord, Moved(t, r),
           \/ lh_clear' = lh_clear /\ (io[t].at \in InPhases <=> r.at \in InPhases)
           \/ lh_clear > 0 /\ lh_clear' = lh_clear - 1 /\ r.at \in InPhases
           \/ lh_clear' = lh_clear + 1 /\ io[t].at \in InPhases /\ r.at \notin InPhases
    PROVE  OneInside'
<1>1. io'[t] = r /\ \A u \in DiskThread : u # t => io'[u] = io[u]
  BY MovedIs
<1>2. /\ \A u \in DiskThread : Inside(u) <=> io[u].at \in InPhases
      /\ \A u \in DiskThread : Inside(u)' <=> io'[u].at \in InPhases
  BY DEF Inside, InPhases
<1>3. /\ \A u \in DiskThread : u # t => (Inside(u)' <=> Inside(u))
      /\ (Inside(t)' <=> r.at \in InPhases) /\ (Inside(t) <=> io[t].at \in InPhases)
  BY <1>1, <1>2
<1>4. /\ lh_clear \in {0, 1} /\ (lh_clear = 1 <=> \A u \in DiskThread : ~Inside(u))
      /\ \A v, u \in DiskThread : Inside(v) /\ Inside(u) => v = u
  BY DEF OneInside
<1>5. CASE lh_clear' = lh_clear /\ (io[t].at \in InPhases <=> r.at \in InPhases)
  <2>1. \A u \in DiskThread : Inside(u)' <=> Inside(u)
    BY <1>3, <1>5
  <2> QED BY <1>4, <1>5, <2>1 DEF OneInside
<1>6. CASE lh_clear > 0 /\ lh_clear' = lh_clear - 1 /\ r.at \in InPhases
  <2>1. lh_clear = 1 /\ lh_clear' = 0
    BY <1>4, <1>6
  <2>2. Inside(t)' /\ \A u \in DiskThread : u # t => ~Inside(u)'
    BY <1>3, <1>4, <1>6, <2>1
  <2> QED BY <2>1, <2>2 DEF OneInside
<1>7. CASE lh_clear' = lh_clear + 1 /\ io[t].at \in InPhases /\ r.at \notin InPhases
  <2>1. lh_clear = 0 /\ lh_clear' = 1
    BY <1>3, <1>4, <1>7
  <2>2. \A u \in DiskThread : ~Inside(u)'
    BY <1>3, <1>4, <1>7
  <2> QED BY <2>1, <2>2 DEF OneInside
<1> QED BY <1>5, <1>6, <1>7

\* Who is inside is alone there.
LEMMA AloneInside ==
    ASSUME OneInside, NEW t \in DiskThread, Inside(t)
    PROVE  \A u \in DiskThread : u # t => io[u].at \notin InPhases
BY DEF OneInside, Inside, InPhases

\* What CardExact asks of one thread, given its record.
CardSees(t) ==
    /\ io[t].at = "kick" /\ io[t].write => lh_buf = t
    /\ io[t].at = "done" => CardOf(t)
    /\ io[t].at = "drain" => Transferred(t) /\ lh_reg.write = FALSE /\ lh_reg.sect = Where(t)
    /\ io[t].at = "pass" /\ io[t].write /\ io[t].result = "ok" => Transferred(t)

\* When nobody else is inside, the card is the business of one thread.
LEMMA CardKept ==
    ASSUME NEW t \in DiskThread, \A u \in DiskThread : u # t => io'[u].at \notin InPhases,
           CardSees(t)', io'[t].at # "done" => (lh_reg'.stat = "idle" /\ lh_done' = 0 /\ ~irqline')
    PROVE  CardExact'
BY DEF CardExact, CardSees, InPhases

cardVars == <<lh_done, lh_result, lh_reg, lh_buf, irqline, sectors>>

\* A thread that stays outside leaves the card alone.
LEMMA OutsideKept ==
    ASSUME DiskInv, NEW t \in DiskThread, NEW r \in IoRecord, Moved(t, r), UNCHANGED <<cardVars, lh_clear>>,
           io[t].at \notin InPhases, r.at \notin InPhases, ResidExact(r)
    PROVE  DiskInv'
<1>1. io' \in [DiskThread -> IoRecord] /\ io'[t] = r /\ \A u \in DiskThread : u # t => io'[u] = io[u]
  BY MovedIs DEF DiskInv
<1>2. DiskTypes'
  BY <1>1 DEF DiskInv, DiskTypes, cardVars
<1>3. RequestsExact'
  BY RequestsKept DEF DiskInv
<1>4. OneInside'
  BY InsideKept DEF DiskInv
<1>5. \A u \in DiskThread : u # t => CardSees(u)'
  BY <1>1 DEF DiskInv, CardExact, CardSees, CardOf, Transferred, Where, cardVars
<1>6. r.at \notin {"kick", "done", "drain", "pass"} /\ io[t].at \notin {"kick", "done", "drain", "pass"}
  BY DEF InPhases
<1>7. CardSees(t)'
  BY <1>1, <1>6 DEF CardSees
<1>8. \A u \in DiskThread : CardSees(u)'
  BY <1>5, <1>7
<1>9. (\A u \in DiskThread : io'[u].at # "done") => \A u \in DiskThread : io[u].at # "done"
  BY <1>1, <1>6
<1>10. (\A u \in DiskThread : io'[u].at # "done") => lh_reg'.stat = "idle" /\ lh_done' = 0 /\ ~irqline'
  BY <1>9 DEF DiskInv, CardExact, cardVars
<1>11. CardExact'
  BY <1>8, <1>10 DEF CardExact, CardSees
<1> QED BY <1>2, <1>3, <1>4, <1>11 DEF DiskInv

\* Where a call of d_io starts.
LEMMA D_ioIs ==
    ASSUME NEW r \in IoRecord
    PROVE  /\ D_io(r) \in IoRecord /\ D_io(r).i = 0 /\ D_io(r).len = r.resid /\ D_io(r).resid = r.resid
           /\ D_io(r).write = r.write /\ D_io(r).sfs = r.sfs /\ D_io(r).sector = r.sector
           /\ D_io(r).at = (IF r.sector + r.resid > D_BLOCKS \/ r.resid = 0 THEN "return" ELSE "clear")
           /\ D_io(r).result = (IF r.sector + r.resid > D_BLOCKS THEN "EINVAL" ELSE "ok")
<1>1. PICK a, b : /\ a = (IF r.sector + r.resid > D_BLOCKS \/ r.resid = 0 THEN "return" ELSE "clear")
                  /\ b = (IF r.sector + r.resid > D_BLOCKS THEN "EINVAL" ELSE "ok")
  OBVIOUS
<1>2. a \in {"return", "clear"} /\ b \in {"EINVAL", "ok"}
  BY <1>1
<1>3. PICK r1 : r1 = [r EXCEPT !.at = a]
  OBVIOUS
<1>4. /\ r1 \in IoRecord /\ r1.at = a /\ r1.write = r.write /\ r1.sfs = r.sfs /\ r1.sector = r.sector
      /\ r1.resid = r.resid
  BY <1>2, <1>3 DEF IoRecord
<1>5. PICK r2 : r2 = [r1 EXCEPT !.result = b]
  OBVIOUS
<1>6. /\ r2 \in IoRecord /\ r2.at = a /\ r2.write = r.write /\ r2.sfs = r.sfs /\ r2.sector = r.sector
      /\ r2.resid = r.resid /\ r2.result = b
  BY <1>2, <1>4, <1>5 DEF IoRecord
<1>7. PICK r3 : r3 = [r2 EXCEPT !.i = 0]
  OBVIOUS
<1>8. /\ r3 \in IoRecord /\ r3.at = a /\ r3.write = r.write /\ r3.sfs = r.sfs /\ r3.sector = r.sector
      /\ r3.resid = r.resid /\ r3.result = b /\ r3.i = 0
  BY <1>6, <1>7 DEF IoRecord
<1>9. PICK r4 : r4 = [r3 EXCEPT !.len = r.resid]
  OBVIOUS
<1>10. /\ r4 \in IoRecord /\ r4.at = a /\ r4.write = r.write /\ r4.sfs = r.sfs /\ r4.sector = r.sector
       /\ r4.resid = r.resid /\ r4.result = b /\ r4.i = 0 /\ r4.len = r.resid
  BY <1>8, <1>9 DEF IoRecord
<1>11. D_io(r) = [r EXCEPT !.at = a, !.result = b, !.i = 0, !.len = r.resid]
  BY <1>1 DEF D_io
<1>12. [r EXCEPT !.at = a, !.result = b, !.i = 0, !.len = r.resid] = r4
  BY <1>3, <1>5, <1>7, <1>9, Zenon
<1> QED BY <1>1, <1>10, <1>11, <1>12

\* A call starts with nothing done, and one of SFS within the disk.
LEMMA D_ioExact ==
    ASSUME NEW r \in IoRecord, r.sfs => r.resid <= 1 /\ r.sector + r.resid <= D_BLOCKS
    PROVE  ResidExact(D_io(r)) /\ D_io(r) \in IoRecord /\ D_io(r).at \notin InPhases
<1>1. PICK d : d = D_io(r)
  OBVIOUS
<1>2. /\ d \in IoRecord /\ d.i = 0 /\ d.len = r.resid /\ d.resid = r.resid
      /\ d.sfs = r.sfs /\ d.sector = r.sector
      /\ d.at = (IF r.sector + r.resid > D_BLOCKS \/ r.resid = 0 THEN "return" ELSE "clear")
      /\ d.result = (IF r.sector + r.resid > D_BLOCKS THEN "EINVAL" ELSE "ok")
  BY <1>1, D_ioIs
<1>3. r.sector \in Nat /\ r.resid \in Nat /\ r.sfs \in BOOLEAN /\ D_BLOCKS \in Nat
  BY DiskAssumption DEF IoRecord
<1>4. ResidExact(d)
  <2>1. CASE r.sector + r.resid > D_BLOCKS
    <3>1. d.at = "return" /\ ~r.sfs
      BY <1>2, <1>3, <2>1
    <3> QED BY <1>2, <3>1 DEF ResidExact
  <2>2. CASE ~(r.sector + r.resid > D_BLOCKS) /\ r.resid = 0
    <3>1. d.at = "return" /\ d.result = "ok"
      BY <1>2, <2>2
    <3> QED BY <1>2, <1>3, <2>2, <3>1 DEF ResidExact
  <2>3. CASE ~(r.sector + r.resid > D_BLOCKS) /\ r.resid # 0
    <3>1. d.at = "clear" /\ d.result = "ok"
      BY <1>2, <2>3
    <3> QED BY <1>2, <1>3, <2>3, <3>1 DEF ResidExact
  <2> QED BY <2>1, <2>2, <2>3
<1> QED BY <1>1, <1>2, <1>4 DEF InPhases

\* The record of a thread that asks for nothing is one.
LEMMA NoIoIs == NoIo \in IoRecord /\ ResidExact(NoIo)
<1>1. NoIo \in IoRecord
  BY DEF NoIo, IoRecord
<1>2. NoIo.at = "idle" /\ NoIo.sfs = FALSE
  BY DEF NoIo
<1> QED BY <1>1, <1>2 DEF ResidExact

\* config_lhd: nobody uses the card.
LEMMA DiskInitInv == DiskInit => DiskInv
<1> SUFFICES ASSUME DiskInit PROVE DiskInv
  OBVIOUS
<1>1. DiskTypes
  BY NoIoIs DEF DiskInit, DiskTypes, Whose
<1>2. \A t \in DiskThread : io[t] = NoIo /\ NoIo.at = "idle"
  BY DEF DiskInit, NoIo
<1>3. OneInside
  BY <1>2 DEF DiskInit, OneInside, Inside
<1>4. RequestsExact
  BY <1>2, NoIoIs DEF RequestsExact
<1>5. \A t \in DiskThread : io[t].at = "idle"
  BY <1>2
<1>6. CardExact
  BY <1>5 DEF DiskInit, CardExact
<1> QED BY <1>1, <1>3, <1>4, <1>6 DEF DiskInv

\* A request is made: by SFS for one sector, or by a process for any number.
LEMMA RequestKept ==
    ASSUME DiskInv, NEW t \in DiskThread, Request(t)
    PROVE  DiskInv'
<1>1. /\ io[t].at = "idle" /\ (SfsBlock(t) \/ RawIo(t))
      /\ UNCHANGED <<cardVars, lh_clear>>
  BY DEF Request, cardVars
<1>2. ASSUME NEW r \in IoRecord, r.sfs => r.resid <= 1 /\ r.sector + r.resid <= D_BLOCKS,
             io' = [io EXCEPT ![t] = D_io(r)]
      PROVE  DiskInv'
  <2>1. ResidExact(D_io(r)) /\ D_io(r) \in IoRecord /\ D_io(r).at \notin InPhases
    BY <1>2, D_ioExact
  <2>2. io[t].at \notin InPhases /\ Moved(t, D_io(r))
    BY <1>1, <1>2 DEF InPhases, Moved
  <2> QED BY <1>1, <2>1, <2>2, OutsideKept
<1>3. CASE SfsBlock(t)
  <2>1. PICK w \in BOOLEAN, s \in Sector :
          io' = [io EXCEPT ![t] = D_io([NoIo EXCEPT !.write = w, !.sfs = TRUE, !.sector = s, !.resid = 1])]
    BY <1>3 DEF SfsBlock
  <2>2. s \in Nat /\ s + 1 <= D_BLOCKS
    BY DiskAssumption DEF Sector
  <2>3. PICK r1 : r1 = [NoIo EXCEPT !.write = w]
    OBVIOUS
  <2>4. r1 \in IoRecord
    BY <2>3, NoIoIs DEF IoRecord
  <2>5. PICK r2 : r2 = [r1 EXCEPT !.sfs = TRUE]
    OBVIOUS
  <2>6. r2 \in IoRecord
    BY <2>4, <2>5 DEF IoRecord
  <2>7. PICK r3 : r3 = [r2 EXCEPT !.sector = s]
    OBVIOUS
  <2>8. r3 \in IoRecord /\ r3.sector = s
    BY <2>2, <2>6, <2>7 DEF IoRecord
  <2>9. PICK r : r = [r3 EXCEPT !.resid = 1]
    OBVIOUS
  <2>10. r \in IoRecord /\ r.sector = s /\ r.resid = 1
    BY <2>8, <2>9 DEF IoRecord
  <2>11. r = [NoIo EXCEPT !.write = w, !.sfs = TRUE, !.sector = s, !.resid = 1]
    BY <2>3, <2>5, <2>7, <2>9, Zenon
  <2>12. io' = [io EXCEPT ![t] = D_io(r)]
    BY <2>1, <2>11, Zenon
  <2>13. r.resid <= 1 /\ r.sector + r.resid <= D_BLOCKS
    BY <2>2, <2>10
  <2> QED BY <1>2, <2>10, <2>12, <2>13
<1>4. CASE RawIo(t)
  <2>1. PICK w \in BOOLEAN, s \in Sector, n \in 0..2 :
          io' = [io EXCEPT ![t] = D_io([NoIo EXCEPT !.write = w, !.sector = s, !.resid = n])]
    BY <1>4 DEF RawIo
  <2>2. s \in Nat /\ n \in Nat
    BY DiskAssumption DEF Sector
  <2>3. PICK r1 : r1 = [NoIo EXCEPT !.write = w]
    OBVIOUS
  <2>4. r1 \in IoRecord /\ r1.sfs = FALSE
    BY <2>3, NoIoIs DEF IoRecord, NoIo
  <2>5. PICK r2 : r2 = [r1 EXCEPT !.sector = s]
    OBVIOUS
  <2>6. r2 \in IoRecord /\ r2.sfs = FALSE
    BY <2>2, <2>4, <2>5 DEF IoRecord
  <2>7. PICK r : r = [r2 EXCEPT !.resid = n]
    OBVIOUS
  <2>8. r \in IoRecord /\ r.sfs = FALSE
    BY <2>2, <2>6, <2>7 DEF IoRecord
  <2>9. r = [NoIo EXCEPT !.write = w, !.sector = s, !.resid = n]
    BY <2>3, <2>5, <2>7, Zenon
  <2>10. io' = [io EXCEPT ![t] = D_io(r)]
    BY <2>1, <2>9, Zenon
  <2> QED BY <1>2, <2>8, <2>10
<1> QED BY <1>1, <1>3, <1>4

\* A step from one place to another, with nothing else changed in the request.
LEMMA GoesIs ==
    ASSUME DiskTypes, NEW t \in DiskThread, NEW a, Goes(t, a),
           a \in {"idle", "clear", "fill", "kick", "done", "drain", "pass", "return"}
    PROVE  \E r \in IoRecord :
             /\ Moved(t, r) /\ r.at = a /\ r.write = io[t].write /\ r.sfs = io[t].sfs /\ r.sector = io[t].sector
             /\ r.i = io[t].i /\ r.len = io[t].len /\ r.resid = io[t].resid /\ r.result = io[t].result
             /\ r.tries = io[t].tries
<1>1. PICK r : r = [io[t] EXCEPT !.at = a]
  OBVIOUS
<1>2. io[t] \in IoRecord
  BY DEF DiskTypes
<1>3. /\ r \in IoRecord /\ r.at = a /\ r.write = io[t].write /\ r.sfs = io[t].sfs /\ r.sector = io[t].sector
      /\ r.i = io[t].i /\ r.len = io[t].len /\ r.resid = io[t].resid /\ r.result = io[t].result
      /\ r.tries = io[t].tries
  BY <1>1, <1>2 DEF IoRecord
<1>4. Moved(t, r)
  BY <1>1 DEF Goes, Moved
<1> QED BY <1>3, <1>4

\* P(lh_clear).
LEMMA P_clearKept ==
    ASSUME DiskInv, NEW t \in DiskThread, P_clear(t)
    PROVE  DiskInv'
<1>0. DiskTypes /\ OneInside /\ RequestsExact /\ CardExact /\ ResidExact(io[t]) /\ io[t] \in IoRecord
  BY DEF DiskInv, RequestsExact, DiskTypes
<1>1. /\ io[t].at = "clear" /\ lh_clear > 0 /\ lh_clear' = lh_clear - 1 /\ UNCHANGED cardVars
      /\ Goes(t, IF io[t].write THEN "fill" ELSE "kick")
  BY DEF P_clear, cardVars
<1>2. PICK r \in IoRecord :
        /\ Moved(t, r) /\ r.at = (IF io[t].write THEN "fill" ELSE "kick")
        /\ r.write = io[t].write /\ r.sfs = io[t].sfs /\ r.sector = io[t].sector
        /\ r.i = io[t].i /\ r.len = io[t].len /\ r.resid = io[t].resid /\ r.result = io[t].result
  BY <1>0, <1>1, GoesIs
<1>3. ResidExact(r)
  BY <1>0, <1>1, <1>2 DEF ResidExact
<1>4. r.at \in InPhases /\ r.at # "done"
  BY <1>2 DEF InPhases
<1>5. OneInside'
  BY <1>0, <1>1, <1>2, <1>4, InsideKept
<1>6. io' \in [DiskThread -> IoRecord] /\ io'[t] = r /\ \A u \in DiskThread : u # t => io'[u] = io[u]
  BY <1>0, <1>2, MovedIs
<1>7. lh_clear = 1 /\ lh_clear' = 0 /\ \A u \in DiskThread : ~Inside(u)
  BY <1>0, <1>1 DEF OneInside
<1>8. DiskTypes'
  BY <1>0, <1>1, <1>6, <1>7 DEF DiskTypes, cardVars
<1>9. RequestsExact'
  BY <1>0, <1>2, <1>3, RequestsKept
<1>10. \A u \in DiskThread : io[u].at \notin InPhases
  BY <1>7 DEF Inside, InPhases
<1>11. lh_reg'.stat = "idle" /\ lh_done' = 0 /\ ~irqline'
  BY <1>0, <1>1, <1>10 DEF CardExact, cardVars, InPhases
<1>12. CardSees(t)'
  BY <1>2, <1>6 DEF CardSees
<1>13. CardExact'
  BY <1>6, <1>10, <1>11, <1>12, CardKept
<1> QED BY <1>5, <1>8, <1>9, <1>13 DEF DiskInv

CardTypes ==
    /\ lh_done \in Nat /\ lh_result \in {"ok", "EIO"}
    /\ lh_reg \in [stat : {"idle", "working", "ok", "media"}, write : BOOLEAN, sect : Nat]
    /\ lh_buf \in Whose /\ irqline \in BOOLEAN /\ sectors \in [Sector -> Whose]

\* A step of the thread inside: it stays, or leaves and raises lh_clear.
LEMMA InsideStep ==
    ASSUME DiskInv, NEW t \in DiskThread, io[t].at \in InPhases, NEW r \in IoRecord, Moved(t, r), ResidExact(r),
           \/ lh_clear' = lh_clear /\ r.at \in InPhases
           \/ lh_clear' = lh_clear + 1 /\ r.at \notin InPhases,
           CardTypes', CardSees(t)', r.at # "done" => (lh_reg'.stat = "idle" /\ lh_done' = 0 /\ ~irqline')
    PROVE  DiskInv'
<1>0. DiskTypes /\ OneInside /\ RequestsExact
  BY DEF DiskInv
<1>1. io' \in [DiskThread -> IoRecord] /\ io'[t] = r /\ \A u \in DiskThread : u # t => io'[u] = io[u]
  BY <1>0, MovedIs
<1>2. OneInside'
  BY <1>0, InsideKept
<1>3. lh_clear' \in Nat
  BY <1>2 DEF OneInside
<1>4. DiskTypes'
  BY <1>1, <1>3 DEF DiskTypes, CardTypes
<1>5. RequestsExact'
  BY <1>0, RequestsKept
<1>6. \A u \in DiskThread : u # t => io'[u].at \notin InPhases
  <2>1. Inside(t)
    BY DEF Inside, InPhases
  <2> QED BY <1>0, <1>1, <2>1, AloneInside
<1>7. CardExact'
  BY <1>1, <1>6, CardKept
<1> QED BY <1>2, <1>4, <1>5, <1>7 DEF DiskInv

\* The thread inside and not waiting finds the card idle.
LEMMA CardIdle ==
    ASSUME DiskInv, NEW t \in DiskThread, io[t].at \in InPhases, io[t].at # "done"
    PROVE  lh_reg.stat = "idle" /\ lh_done = 0 /\ ~irqline
<1>1. \A u \in DiskThread : u # t => io[u].at \notin InPhases
  <2>1. Inside(t)
    BY DEF Inside, InPhases
  <2> QED BY <2>1, AloneInside DEF DiskInv
<1>2. \A u \in DiskThread : io[u].at # "done"
  BY <1>1 DEF InPhases
<1> QED BY <1>2 DEF DiskInv, CardExact

Places == {"idle", "clear", "fill", "kick", "done", "drain", "pass", "return"}

\* A step that also takes one sector off what is left: a uiomove.
LEMMA MoveIs ==
    ASSUME DiskTypes, NEW t \in DiskThread, NEW a \in Places, io[t].resid - 1 \in Nat,
           io' = [io EXCEPT ![t].at = a, ![t].resid = @ - 1]
    PROVE  \E r \in IoRecord :
             /\ Moved(t, r) /\ r.at = a /\ r.write = io[t].write /\ r.sfs = io[t].sfs /\ r.sector = io[t].sector
             /\ r.i = io[t].i /\ r.len = io[t].len /\ r.resid = io[t].resid - 1 /\ r.result = io[t].result
<1>0. io \in [DiskThread -> IoRecord] /\ io[t] \in IoRecord
  BY DEF DiskTypes
<1>1. PICK q : q = [io[t] EXCEPT !.at = a]
  OBVIOUS
<1>2. /\ q \in IoRecord /\ q.at = a /\ q.write = io[t].write /\ q.sfs = io[t].sfs
      /\ q.sector = io[t].sector /\ q.i = io[t].i /\ q.len = io[t].len /\ q.resid = io[t].resid
      /\ q.result = io[t].result
  BY <1>0, <1>1 DEF IoRecord, Places
<1>3. PICK r : r = [q EXCEPT !.resid = io[t].resid - 1]
  OBVIOUS
<1>4. /\ r \in IoRecord /\ r.at = a /\ r.write = io[t].write /\ r.sfs = io[t].sfs
      /\ r.sector = io[t].sector /\ r.i = io[t].i /\ r.len = io[t].len /\ r.resid = io[t].resid - 1
      /\ r.result = io[t].result
  BY <1>2, <1>3 DEF IoRecord
<1>5. PICK o1 : o1 = [io EXCEPT ![t].at = a]
  OBVIOUS
<1>6. o1 = [io EXCEPT ![t] = q] /\ o1[t] = q
  BY <1>0, <1>1, <1>5
<1>7. io' = [o1 EXCEPT ![t].resid = @ - 1]
  BY <1>5, Zenon
<1>8. io' = [o1 EXCEPT ![t] = r]
  BY <1>2, <1>3, <1>6, <1>7
<1>9. Moved(t, r)
  BY <1>0, <1>6, <1>8 DEF Moved
<1> QED BY <1>4, <1>9

Returns(t, a, e) == io' = [io EXCEPT ![t].at = a, ![t].result = e]
Answered(t, a, e, b) == io' = [io EXCEPT ![t].at = a, ![t].result = e, ![t].reached = @ \/ b]

\* A step that also sets the result.
LEMMA ResultIs ==
    ASSUME DiskTypes, NEW t \in DiskThread, NEW a \in Places, NEW e \in {"ok", "EIO", "EINVAL", "EFAULT"},
           Returns(t, a, e)
    PROVE  \E r \in IoRecord :
             /\ Moved(t, r) /\ r.at = a /\ r.write = io[t].write /\ r.sfs = io[t].sfs /\ r.sector = io[t].sector
             /\ r.i = io[t].i /\ r.len = io[t].len /\ r.resid = io[t].resid /\ r.result = e
<1>0. io \in [DiskThread -> IoRecord] /\ io[t] \in IoRecord
  BY DEF DiskTypes
<1>1. PICK q : q = [io[t] EXCEPT !.at = a]
  OBVIOUS
<1>2. /\ q \in IoRecord /\ q.at = a /\ q.write = io[t].write /\ q.sfs = io[t].sfs
      /\ q.sector = io[t].sector /\ q.i = io[t].i /\ q.len = io[t].len /\ q.resid = io[t].resid
  BY <1>0, <1>1 DEF IoRecord, Places
<1>3. PICK r : r = [q EXCEPT !.result = e]
  OBVIOUS
<1>4. /\ r \in IoRecord /\ r.at = a /\ r.write = io[t].write /\ r.sfs = io[t].sfs
      /\ r.sector = io[t].sector /\ r.i = io[t].i /\ r.len = io[t].len /\ r.resid = io[t].resid
      /\ r.result = e
  BY <1>2, <1>3 DEF IoRecord
<1>5. PICK o1 : o1 = [io EXCEPT ![t].at = a]
  OBVIOUS
<1>6. o1 = [io EXCEPT ![t] = q] /\ o1[t] = q
  BY <1>0, <1>1, <1>5
<1>7. io' = [o1 EXCEPT ![t].result = e]
  BY <1>5, Zenon DEF Returns
<1>8. io' = [o1 EXCEPT ![t] = r]
  BY <1>2, <1>3, <1>6, <1>7
<1>9. Moved(t, r)
  BY <1>0, <1>6, <1>8 DEF Moved
<1> QED BY <1>4, <1>9

\* uiomove into the card's buffer, or its failure.
LEMMA FillKept ==
    ASSUME DiskInv, NEW t \in DiskThread, Fill(t)
    PROVE  DiskInv'
<1>0. DiskTypes /\ CardExact /\ ResidExact(io[t]) /\ io[t] \in IoRecord /\ io[t].at = "fill"
  BY DEF DiskInv, RequestsExact, DiskTypes, Fill
<1>1. io[t].at \in InPhases /\ lh_reg.stat = "idle" /\ lh_done = 0 /\ ~irqline
  BY <1>0, CardIdle DEF InPhases
<1>2. UNCHANGED <<lh_done, lh_result, lh_reg, irqline, sectors>>
  BY DEF Fill
<1>3. CASE lh_buf' = t /\ io' = [io EXCEPT ![t].at = "kick", ![t].resid = @ - 1] /\ lh_clear' = lh_clear
  <2>1. io[t].resid - 1 \in Nat /\ "kick" \in Places
    BY <1>0 DEF ResidExact, IoRecord, Places
  <2>2. PICK r \in IoRecord :
          /\ Moved(t, r) /\ r.at = "kick" /\ r.write = io[t].write /\ r.sfs = io[t].sfs /\ r.sector = io[t].sector
          /\ r.i = io[t].i /\ r.len = io[t].len /\ r.resid = io[t].resid - 1 /\ r.result = io[t].result
    BY <1>0, <1>3, <2>1, MoveIs
  <2>3. ResidExact(r)
    BY <1>0, <2>2 DEF ResidExact, IoRecord
  <2>4. io'[t] = r
    BY <1>0, <2>2, MovedIs
  <2>5. CardSees(t)'
    BY <1>3, <2>2, <2>4 DEF CardSees
  <2>6. CardTypes'
    BY <1>0, <1>2, <1>3 DEF CardTypes, DiskTypes, Whose
  <2>7. lh_reg'.stat = "idle" /\ lh_done' = 0 /\ ~irqline' /\ r.at \in InPhases
    BY <1>1, <1>2, <2>2 DEF InPhases
  <2> QED BY <1>1, <1>3, <2>2, <2>3, <2>5, <2>6, <2>7, InsideStep
<1>4. CASE /\ ~io[t].sfs /\ lh_clear' = lh_clear + 1 /\ lh_buf' = lh_buf
           /\ io' = [io EXCEPT ![t].at = "return", ![t].result = "EFAULT"]
  <2>1. PICK r \in IoRecord :
          /\ Moved(t, r) /\ r.at = "return" /\ r.write = io[t].write /\ r.sfs = io[t].sfs /\ r.sector = io[t].sector
          /\ r.i = io[t].i /\ r.len = io[t].len /\ r.resid = io[t].resid /\ r.result = "EFAULT"
    <3>1. "return" \in Places /\ "EFAULT" \in {"ok", "EIO", "EINVAL", "EFAULT"}
      BY DEF Places
    <3>2. Returns(t, "return", "EFAULT")
      BY <1>4 DEF Returns
    <3> QED BY <1>0, <3>1, <3>2, ResultIs
  <2>2. ResidExact(r)
    BY <1>4, <2>1 DEF ResidExact
  <2>3. io'[t] = r
    BY <1>0, <2>1, MovedIs
  <2>4. CardSees(t)'
    BY <2>1, <2>3 DEF CardSees
  <2>5. CardTypes'
    BY <1>0, <1>2, <1>4 DEF CardTypes, DiskTypes
  <2>6. lh_reg'.stat = "idle" /\ lh_done' = 0 /\ ~irqline' /\ r.at \notin InPhases
    BY <1>1, <1>2, <2>1 DEF InPhases
  <2> QED BY <1>1, <1>4, <2>1, <2>2, <2>4, <2>5, <2>6, InsideStep
<1> QED BY <1>3, <1>4 DEF Fill

\* The registers are written: the card works on the thread's sector.
LEMMA KickKept ==
    ASSUME DiskInv, NEW t \in DiskThread, Kick(t)
    PROVE  DiskInv'
<1>0. DiskTypes /\ CardExact /\ ResidExact(io[t]) /\ io[t] \in IoRecord /\ io[t].at = "kick"
  BY DEF DiskInv, RequestsExact, DiskTypes, Kick
<1>1. io[t].at \in InPhases /\ lh_done = 0 /\ ~irqline
  BY <1>0, CardIdle DEF InPhases
<1>2. /\ UNCHANGED <<lh_clear, lh_done, lh_result, lh_buf, irqline, sectors>>
      /\ lh_reg' = [stat |-> "working", write |-> io[t].write, sect |-> io[t].sector + io[t].i]
      /\ Goes(t, "done")
  BY DEF Kick
<1>3. PICK r \in IoRecord :
        /\ Moved(t, r) /\ r.at = "done" /\ r.write = io[t].write /\ r.sfs = io[t].sfs /\ r.sector = io[t].sector
        /\ r.i = io[t].i /\ r.len = io[t].len /\ r.resid = io[t].resid /\ r.result = io[t].result
  BY <1>0, <1>2, GoesIs
<1>4. ResidExact(r)
  BY <1>0, <1>3 DEF ResidExact
<1>5. io'[t] = r
  BY <1>0, <1>3, MovedIs
<1>6. io[t].write => lh_buf = t
  BY <1>0 DEF CardExact
<1>7. /\ lh_reg'.stat = "working" /\ lh_reg'.write = io[t].write /\ lh_reg'.sect = io[t].sector + io[t].i
      /\ lh_reg' \in [stat : {"idle", "working", "ok", "media"}, write : BOOLEAN, sect : Nat]
  BY <1>0, <1>2 DEF IoRecord
<1>8. CardOf(t)'
  BY <1>1, <1>2, <1>3, <1>5, <1>6, <1>7 DEF CardOf, Where
<1>9. CardSees(t)'
  BY <1>3, <1>5, <1>8 DEF CardSees
<1>10. CardTypes'
  BY <1>0, <1>2, <1>7 DEF CardTypes, DiskTypes
<1>11. r.at \in InPhases /\ lh_clear' = lh_clear
  BY <1>2, <1>3 DEF InPhases
<1> QED BY <1>1, <1>3, <1>4, <1>9, <1>10, <1>11, InsideStep

\* The answer of the card is taken over into the request.
LEMMA AnswerIs ==
    ASSUME DiskTypes, NEW t \in DiskThread, NEW a \in Places, NEW e \in {"ok", "EIO"}, NEW b \in BOOLEAN,
           Answered(t, a, e, b)
    PROVE  \E r \in IoRecord :
             /\ Moved(t, r) /\ r.at = a /\ r.write = io[t].write /\ r.sfs = io[t].sfs /\ r.sector = io[t].sector
             /\ r.i = io[t].i /\ r.len = io[t].len /\ r.resid = io[t].resid /\ r.result = e
<1>0. io \in [DiskThread -> IoRecord] /\ io[t] \in IoRecord
  BY DEF DiskTypes
<1>1. PICK q : q = [io[t] EXCEPT !.at = a]
  OBVIOUS
<1>2. /\ q \in IoRecord /\ q.at = a /\ q.write = io[t].write /\ q.sfs = io[t].sfs
      /\ q.sector = io[t].sector /\ q.i = io[t].i /\ q.len = io[t].len /\ q.resid = io[t].resid
  BY <1>0, <1>1 DEF IoRecord, Places
<1>3. PICK p : p = [q EXCEPT !.result = e]
  OBVIOUS
<1>4. /\ p \in IoRecord /\ p.at = a /\ p.write = io[t].write /\ p.sfs = io[t].sfs
      /\ p.sector = io[t].sector /\ p.i = io[t].i /\ p.len = io[t].len /\ p.resid = io[t].resid
      /\ p.result = e
  BY <1>2, <1>3 DEF IoRecord
<1>5. PICK c \in BOOLEAN : c = (p.reached \/ b)
  OBVIOUS
<1>6. PICK r : r = [p EXCEPT !.reached = c]
  OBVIOUS
<1>7. /\ r \in IoRecord /\ r.at = a /\ r.write = io[t].write /\ r.sfs = io[t].sfs
      /\ r.sector = io[t].sector /\ r.i = io[t].i /\ r.len = io[t].len /\ r.resid = io[t].resid
      /\ r.result = e
  BY <1>4, <1>5, <1>6 DEF IoRecord
<1>8. PICK o1 : o1 = [io EXCEPT ![t].at = a]
  OBVIOUS
<1>9. o1 = [io EXCEPT ![t] = q] /\ o1[t] = q
  BY <1>0, <1>1, <1>8
<1>10. PICK o2 : o2 = [o1 EXCEPT ![t].result = e]
  OBVIOUS
<1>11. o2 = [o1 EXCEPT ![t] = p]
  BY <1>2, <1>3, <1>9, <1>10
<1>12. o2 = [io EXCEPT ![t] = p] /\ o2[t] = p
  BY <1>0, <1>9, <1>11
<1>13. io' = [o2 EXCEPT ![t].reached = @ \/ b]
  BY <1>8, <1>10, Zenon DEF Answered
<1>14. io' = [o2 EXCEPT ![t].reached = o2[t].reached \/ b]
  BY <1>13, Zenon
<1>15. io' = [o2 EXCEPT ![t].reached = c]
  BY <1>5, <1>12, <1>14, Zenon
<1>16. io' = [o2 EXCEPT ![t] = r]
  BY <1>4, <1>6, <1>12, <1>15
<1>17. Moved(t, r)
  BY <1>0, <1>12, <1>16 DEF Moved
<1> QED BY <1>7, <1>17

\* P(lh_done): the waiting thread has the answer of its own sector.
LEMMA P_doneKept ==
    ASSUME DiskInv, NEW t \in DiskThread, P_done(t)
    PROVE  DiskInv'
<1>0. DiskTypes /\ CardExact /\ ResidExact(io[t]) /\ io[t] \in IoRecord /\ io[t].at = "done" /\ lh_done > 0
  BY DEF DiskInv, RequestsExact, DiskTypes, P_done
<1>1. CardOf(t) /\ io[t].at \in InPhases
  BY <1>0 DEF CardExact, InPhases
<1>2. /\ lh_reg.stat = "idle" /\ ~irqline /\ lh_done = 1 /\ (lh_result = "ok" => Transferred(t))
      /\ lh_reg.write = io[t].write /\ lh_reg.sect = Where(t)
  BY <1>0, <1>1 DEF CardOf
<1>3. PICK a \in Places : a = IF lh_result = "ok" /\ ~io[t].write THEN "drain" ELSE "pass"
  BY DEF Places
<1>4. PICK b \in BOOLEAN : b = (lh_result = "ok")
  OBVIOUS
<1>5. lh_result \in {"ok", "EIO"}
  BY <1>0 DEF DiskTypes
<1>6. PICK e \in {"ok", "EIO"} : e = lh_result
  BY <1>5
<1>7. /\ UNCHANGED <<lh_clear, lh_result, lh_reg, lh_buf, irqline, sectors>> /\ lh_done' = 0
      /\ io' = [io EXCEPT ![t].at = IF lh_result = "ok" /\ ~io[t].write THEN "drain" ELSE "pass",
                          ![t].result = lh_result, ![t].reached = @ \/ (lh_result = "ok")]
  BY <1>2 DEF P_done
<1>8. Answered(t, a, e, b)
  BY <1>3, <1>4, <1>6, <1>7, Zenon DEF Answered
<1>9. PICK r \in IoRecord :
        /\ Moved(t, r) /\ r.at = a /\ r.write = io[t].write /\ r.sfs = io[t].sfs /\ r.sector = io[t].sector
        /\ r.i = io[t].i /\ r.len = io[t].len /\ r.resid = io[t].resid /\ r.result = e
  BY <1>0, <1>8, AnswerIs
<1>10. ResidExact(r)
  <2>1. CASE a = "drain"
    <3>1. e = "ok" /\ ~io[t].write
      BY <1>3, <1>6, <2>1
    <3> QED BY <1>0, <1>9, <2>1, <3>1 DEF ResidExact
  <2>2. CASE a = "pass"
    <3>1. (e = "ok" => io[t].write)
      BY <1>3, <1>6, <2>2
    <3>2. io[t].sfs => io[t].sector < D_BLOCKS
      BY <1>0, DiskAssumption DEF ResidExact, IoRecord
    <3>3. r.resid \in {r.len - r.i - 1, r.len - r.i} /\ (e = "ok" => r.resid = r.len - r.i - 1)
      BY <1>0, <1>9, <3>1 DEF ResidExact
    <3>4. r.sfs => /\ r.resid <= 1 /\ r.len <= 1 /\ r.result # "EINVAL"
                   /\ r.result = "EIO" => r.sector < D_BLOCKS
      BY <1>0, <1>9, <3>2 DEF ResidExact
    <3> QED BY <1>0, <1>9, <2>2, <3>3, <3>4 DEF ResidExact
  <2> QED BY <1>3, <2>1, <2>2
<1>11. io'[t] = r
  BY <1>0, <1>9, MovedIs
<1>12. Transferred(t)' <=> Transferred(t)
  BY <1>7, <1>9, <1>11 DEF Transferred, Where
<1>13. r.at = "drain" => e = "ok" /\ ~io[t].write
  BY <1>3, <1>6, <1>9
<1>14. CardSees(t)'
  <2>1. r.at # "kick" /\ r.at # "done"
    BY <1>3, <1>9
  <2>2. r.at = "drain" => Transferred(t)' /\ lh_reg'.write = FALSE /\ lh_reg'.sect = Where(t)'
    BY <1>2, <1>6, <1>7, <1>9, <1>11, <1>12, <1>13 DEF Where
  <2>3. r.result = "ok" => Transferred(t)'
    BY <1>2, <1>6, <1>9, <1>12
  <2> QED BY <1>11, <2>1, <2>2, <2>3 DEF CardSees
<1>15. CardTypes'
  BY <1>0, <1>7 DEF CardTypes, DiskTypes
<1>16. lh_reg'.stat = "idle" /\ lh_done' = 0 /\ ~irqline' /\ r.at \in InPhases
  BY <1>2, <1>3, <1>7, <1>9 DEF InPhases
<1> QED BY <1>1, <1>7, <1>9, <1>10, <1>14, <1>15, <1>16, InsideStep

\* uiomove out of the card's buffer, or its failure.
LEMMA DrainKept ==
    ASSUME DiskInv, NEW t \in DiskThread, Drain(t)
    PROVE  DiskInv'
<1>0. DiskTypes /\ CardExact /\ ResidExact(io[t]) /\ io[t] \in IoRecord /\ io[t].at = "drain" /\ ~io[t].write
  BY DEF DiskInv, RequestsExact, DiskTypes, Drain, ResidExact
<1>1. io[t].at \in InPhases /\ lh_reg.stat = "idle" /\ lh_done = 0 /\ ~irqline
  BY <1>0, CardIdle DEF InPhases
<1>2. UNCHANGED <<cardVars, lh_clear>> /\ "pass" \in Places
  BY DEF Drain, cardVars, Places
<1>3. PICK r \in IoRecord : Moved(t, r) /\ r.at = "pass" /\ ~r.write /\ ResidExact(r)
  <2>1. CASE io' = [io EXCEPT ![t].at = "pass", ![t].resid = @ - 1]
    <3>1. io[t].resid - 1 \in Nat
      BY <1>0 DEF ResidExact, IoRecord
    <3>2. PICK r \in IoRecord :
            /\ Moved(t, r) /\ r.at = "pass" /\ r.write = io[t].write /\ r.sfs = io[t].sfs
            /\ r.sector = io[t].sector
            /\ r.i = io[t].i /\ r.len = io[t].len /\ r.resid = io[t].resid - 1 /\ r.result = io[t].result
      BY <1>0, <1>2, <2>1, <3>1, MoveIs
    <3>3. ResidExact(r)
      BY <1>0, <3>2 DEF ResidExact, IoRecord
    <3> QED BY <1>0, <3>2, <3>3
  <2>2. CASE ~io[t].sfs /\ io' = [io EXCEPT ![t].at = "pass", ![t].result = "EFAULT"]
    <3>1. Returns(t, "pass", "EFAULT") /\ "EFAULT" \in {"ok", "EIO", "EINVAL", "EFAULT"}
      BY <2>2 DEF Returns
    <3>2. PICK r \in IoRecord :
            /\ Moved(t, r) /\ r.at = "pass" /\ r.write = io[t].write /\ r.sfs = io[t].sfs
            /\ r.sector = io[t].sector
            /\ r.i = io[t].i /\ r.len = io[t].len /\ r.resid = io[t].resid /\ r.result = "EFAULT"
      BY <1>0, <1>2, <3>1, ResultIs
    <3>3. ResidExact(r)
      BY <1>0, <2>2, <3>2 DEF ResidExact, IoRecord
    <3> QED BY <1>0, <3>2, <3>3
  <2> QED BY <2>1, <2>2 DEF Drain
<1>4. io'[t] = r
  BY <1>0, <1>3, MovedIs
<1>5. CardSees(t)'
  BY <1>3, <1>4 DEF CardSees
<1>6. CardTypes'
  BY <1>0, <1>2 DEF CardTypes, DiskTypes, cardVars
<1>7. lh_reg'.stat = "idle" /\ lh_done' = 0 /\ ~irqline' /\ r.at \in InPhases /\ lh_clear' = lh_clear
  BY <1>1, <1>2, <1>3 DEF InPhases, cardVars
<1> QED BY <1>1, <1>3, <1>5, <1>6, <1>7, InsideStep

Passes(t, a, n) == io' = [io EXCEPT ![t].at = a, ![t].i = n]

\* A step that also sets the number of the sector.
LEMMA PassesIs ==
    ASSUME DiskTypes, NEW t \in DiskThread, NEW a \in Places, NEW n \in Nat, Passes(t, a, n)
    PROVE  \E r \in IoRecord :
             /\ Moved(t, r) /\ r.at = a /\ r.write = io[t].write /\ r.sfs = io[t].sfs /\ r.sector = io[t].sector
             /\ r.i = n /\ r.len = io[t].len /\ r.resid = io[t].resid /\ r.result = io[t].result
<1>0. io \in [DiskThread -> IoRecord] /\ io[t] \in IoRecord
  BY DEF DiskTypes
<1>1. PICK q : q = [io[t] EXCEPT !.at = a]
  OBVIOUS
<1>2. /\ q \in IoRecord /\ q.at = a /\ q.write = io[t].write /\ q.sfs = io[t].sfs
      /\ q.sector = io[t].sector /\ q.len = io[t].len /\ q.resid = io[t].resid /\ q.result = io[t].result
  BY <1>0, <1>1 DEF IoRecord, Places
<1>3. PICK r : r = [q EXCEPT !.i = n]
  OBVIOUS
<1>4. /\ r \in IoRecord /\ r.at = a /\ r.write = io[t].write /\ r.sfs = io[t].sfs
      /\ r.sector = io[t].sector /\ r.i = n /\ r.len = io[t].len /\ r.resid = io[t].resid
      /\ r.result = io[t].result
  BY <1>2, <1>3 DEF IoRecord
<1>5. PICK o1 : o1 = [io EXCEPT ![t].at = a]
  OBVIOUS
<1>6. o1 = [io EXCEPT ![t] = q] /\ o1[t] = q
  BY <1>0, <1>1, <1>5
<1>7. io' = [o1 EXCEPT ![t].i = n]
  BY <1>5, Zenon DEF Passes
<1>8. io' = [o1 EXCEPT ![t] = r]
  BY <1>2, <1>3, <1>6, <1>7
<1>9. Moved(t, r)
  BY <1>0, <1>6, <1>8 DEF Moved
<1> QED BY <1>4, <1>9

\* V(lh_clear), and on to the next sector or back.
LEMMA PassKept ==
    ASSUME DiskInv, NEW t \in DiskThread, Pass(t)
    PROVE  DiskInv'
<1>0. DiskTypes /\ CardExact /\ ResidExact(io[t]) /\ io[t] \in IoRecord /\ io[t].at = "pass"
  BY DEF DiskInv, RequestsExact, DiskTypes, Pass
<1>1. io[t].at \in InPhases /\ lh_reg.stat = "idle" /\ lh_done = 0 /\ ~irqline
  BY <1>0, CardIdle DEF InPhases
<1>2. UNCHANGED cardVars /\ lh_clear' = lh_clear + 1
  BY DEF Pass, cardVars
<1>3. PICK r \in IoRecord : Moved(t, r) /\ r.at \in {"return", "clear"} /\ ResidExact(r)
  <2>1. CASE io[t].result # "ok" \/ io[t].i + 1 = io[t].len
    <3>1. io' = [io EXCEPT ![t].at = "return", ![t].i = @]
      BY <2>1 DEF Pass
    <3>2. Passes(t, "return", io[t].i)
      BY <1>0, <3>1 DEF Passes, DiskTypes
    <3>3. "return" \in Places /\ io[t].i \in Nat
      BY <1>0 DEF Places, IoRecord
    <3>4. PICK r \in IoRecord :
            /\ Moved(t, r) /\ r.at = "return" /\ r.write = io[t].write /\ r.sfs = io[t].sfs
            /\ r.sector = io[t].sector
            /\ r.i = io[t].i /\ r.len = io[t].len /\ r.resid = io[t].resid /\ r.result = io[t].result
      BY <1>0, <3>2, <3>3, PassesIs
    <3>5. ResidExact(r)
      BY <1>0, <3>4 DEF ResidExact
    <3> QED BY <3>4, <3>5
  <2>2. CASE ~(io[t].result # "ok" \/ io[t].i + 1 = io[t].len)
    <3>1. io' = [io EXCEPT ![t].at = "clear", ![t].i = @ + 1]
      BY <2>2 DEF Pass
    <3>2. Passes(t, "clear", io[t].i + 1)
      BY <1>0, <3>1 DEF Passes, DiskTypes
    <3>3. "clear" \in Places /\ io[t].i + 1 \in Nat
      BY <1>0 DEF Places, IoRecord
    <3>4. PICK r \in IoRecord :
            /\ Moved(t, r) /\ r.at = "clear" /\ r.write = io[t].write /\ r.sfs = io[t].sfs
            /\ r.sector = io[t].sector
            /\ r.i = io[t].i + 1 /\ r.len = io[t].len /\ r.resid = io[t].resid /\ r.result = io[t].result
      BY <1>0, <3>2, <3>3, PassesIs
    <3>5. io[t].i \in Nat /\ io[t].len \in Nat /\ io[t].resid \in Nat
      BY <1>0 DEF IoRecord
    <3>6. ResidExact(r)
      BY <1>0, <2>2, <3>4, <3>5 DEF ResidExact
    <3> QED BY <3>4, <3>6
  <2> QED BY <2>1, <2>2
<1>4. io'[t] = r
  BY <1>0, <1>3, MovedIs
<1>5. CardSees(t)'
  BY <1>3, <1>4 DEF CardSees
<1>6. CardTypes'
  BY <1>0, <1>2 DEF CardTypes, DiskTypes, cardVars
<1>7. lh_reg'.stat = "idle" /\ lh_done' = 0 /\ ~irqline' /\ r.at \notin InPhases
  BY <1>1, <1>2, <1>3 DEF InPhases, cardVars
<1> QED BY <1>1, <1>2, <1>3, <1>5, <1>6, <1>7, InsideStep

\* The request is over: the thread goes back to what it does without the disk.
LEMMA BackKept ==
    ASSUME DiskInv, NEW t \in DiskThread, io[t].at = "return", Goes(t, "idle"), UNCHANGED <<cardVars, lh_clear>>
    PROVE  DiskInv'
<1>0. DiskTypes /\ ResidExact(io[t]) /\ io[t] \in IoRecord
  BY DEF DiskInv, RequestsExact, DiskTypes
<1>1. PICK r \in IoRecord :
        /\ Moved(t, r) /\ r.at = "idle" /\ r.write = io[t].write /\ r.sfs = io[t].sfs /\ r.sector = io[t].sector
        /\ r.i = io[t].i /\ r.len = io[t].len /\ r.resid = io[t].resid /\ r.result = io[t].result
  BY <1>0, GoesIs
<1>2. ResidExact(r)
  BY <1>0, <1>1 DEF ResidExact
<1>3. io[t].at \notin InPhases /\ r.at \notin InPhases
  BY <1>1 DEF InPhases
<1> QED BY <1>1, <1>2, <1>3, OutsideKept

\* sfs_rwblock: the same sector again, or the one after it with nothing left to
\* transfer; it gives up or it returns.
LEMMA RwblockKept ==
    ASSUME DiskInv, NEW t \in DiskThread, sfs_rwblock(t)
    PROVE  DiskInv'
<1>0. DiskTypes /\ ResidExact(io[t]) /\ io[t] \in IoRecord /\ io[t].at = "return" /\ io[t].sfs
  BY DEF DiskInv, RequestsExact, DiskTypes, sfs_rwblock
<1>1. UNCHANGED <<cardVars, lh_clear>>
  BY DEF sfs_rwblock, cardVars
<1>2. CASE io[t].result = "EIO" /\ io[t].tries < TRIES
  <2>1. io' = [io EXCEPT ![t] = D_io([io[t] EXCEPT !.tries = @ + 1, !.sector = @ + 1 - io[t].resid])]
    BY <1>2 DEF sfs_rwblock
  <2>0. io[t].tries + 1 \in Nat
    BY <1>0 DEF IoRecord
  <2>2. PICK q : q = [io[t] EXCEPT !.tries = io[t].tries + 1]
    OBVIOUS
  <2>3. /\ q \in IoRecord /\ q.sfs = io[t].sfs /\ q.resid = io[t].resid /\ q.sector = io[t].sector
    BY <1>0, <2>0, <2>2 DEF IoRecord
  <2>4. /\ io[t].sector \in Nat /\ io[t].resid \in {0, 1} /\ io[t].sector < D_BLOCKS
        /\ io[t].sector + 1 - io[t].resid \in Nat
    BY <1>0, <1>2 DEF ResidExact, IoRecord
  <2>5. PICK r : r = [q EXCEPT !.sector = io[t].sector + 1 - io[t].resid]
    OBVIOUS
  <2>6. r \in IoRecord /\ r.resid = io[t].resid /\ r.sector = io[t].sector + 1 - io[t].resid
    BY <2>3, <2>4, <2>5 DEF IoRecord
  <2>7. r = [io[t] EXCEPT !.tries = @ + 1, !.sector = @ + 1 - io[t].resid]
    BY <1>0, <2>2, <2>5 DEF IoRecord
  <2>8. io' = [io EXCEPT ![t] = D_io(r)]
    BY <2>1, <2>7, Zenon
  <2>9. r.resid <= 1 /\ r.sector + r.resid <= D_BLOCKS
    BY <2>4, <2>6, DiskAssumption
  <2>10. ResidExact(D_io(r)) /\ D_io(r) \in IoRecord /\ D_io(r).at \notin InPhases
    BY <2>6, <2>9, D_ioExact
  <2>11. io[t].at \notin InPhases /\ Moved(t, D_io(r))
    BY <1>0, <2>8 DEF InPhases, Moved
  <2> QED BY <1>1, <2>10, <2>11, OutsideKept
<1>3. CASE ~(io[t].result = "EIO" /\ io[t].tries < TRIES)
  <2>1. Goes(t, "idle")
    BY <1>3 DEF sfs_rwblock
  <2> QED BY <1>0, <1>1, <2>1, BackKept
<1> QED BY <1>2, <1>3

\* A step of the card, or of its interrupt, while a thread waits for it.
LEMMA CardStep ==
    ASSUME DiskInv, NEW t \in DiskThread, io[t].at = "done", UNCHANGED <<io, lh_clear>>, CardTypes', CardOf(t)'
    PROVE  DiskInv'
<1>1. \A u \in DiskThread : u # t => io[u].at \notin InPhases
  BY AloneInside DEF DiskInv, Inside
<1>2. \A u \in DiskThread : u # t => io'[u].at \notin InPhases
  BY <1>1
<1>3. CardSees(t)'
  BY DEF CardSees
<1>4. CardExact'
  BY <1>2, <1>3, CardKept
<1>5. DiskTypes' /\ OneInside' /\ RequestsExact'
  BY DEF DiskInv, DiskTypes, CardTypes, OneInside, Inside, RequestsExact
<1> QED BY <1>4, <1>5 DEF DiskInv

\* The card finishes a sector, or fails.
LEMMA CardDoneKept ==
    ASSUME DiskInv, CardDone
    PROVE  DiskInv'
<1>0. DiskTypes /\ CardExact /\ lh_reg.stat = "working"
  BY DEF DiskInv, CardDone
<1>1. PICK t \in DiskThread : io[t].at = "done"
  BY <1>0 DEF CardExact
<1>2. CardOf(t) /\ ResidExact(io[t]) /\ io[t] \in IoRecord
  BY <1>0, <1>1 DEF CardExact, DiskInv, RequestsExact, DiskTypes
<1>3. /\ lh_reg.write = io[t].write /\ lh_reg.sect = Where(t) /\ lh_done = 0 /\ (io[t].write => lh_buf = t)
  BY <1>0, <1>2 DEF CardOf
<1>4. Where(t) \in Sector
  BY <1>1, <1>2, DiskAssumption DEF ResidExact, IoRecord, Where, Sector
<1>5. /\ UNCHANGED <<lh_clear, lh_done, lh_result, io>> /\ irqline'
  BY DEF CardDone
<1>6. PICK stat \in {"ok", "media"} :
        /\ lh_reg' = [lh_reg EXCEPT !.stat = stat]
        /\ sectors' = IF stat = "ok" /\ lh_reg.write
                        THEN [sectors EXCEPT ![lh_reg.sect] = lh_buf] ELSE sectors
        /\ lh_buf' = IF stat = "ok" /\ ~lh_reg.write THEN sectors[lh_reg.sect] ELSE lh_buf
  BY DEF CardDone
<1>7. /\ lh_reg' \in [stat : {"idle", "working", "ok", "media"}, write : BOOLEAN, sect : Nat]
      /\ lh_reg'.stat = stat /\ lh_reg'.write = io[t].write /\ lh_reg'.sect = Where(t)
  BY <1>0, <1>3, <1>6 DEF DiskTypes
<1>8. lh_buf' \in Whose /\ sectors' \in [Sector -> Whose]
  BY <1>0, <1>3, <1>4, <1>6 DEF DiskTypes
<1>9. irqline' \in BOOLEAN /\ lh_done' \in Nat /\ lh_result' \in {"ok", "EIO"}
  BY <1>0, <1>5 DEF DiskTypes, CardDone
<1>10. CardTypes'
  BY <1>7, <1>8, <1>9 DEF CardTypes
<1>11. Where(t)' = Where(t) /\ io'[t] = io[t]
  BY <1>5 DEF Where
<1>12. stat = "ok" => Transferred(t)'
  <2>1. ASSUME stat = "ok", io[t].write PROVE sectors'[Where(t)] = t
    BY <1>0, <1>3, <1>4, <1>6, <2>1 DEF DiskTypes
  <2>2. ASSUME stat = "ok", ~io[t].write PROVE lh_buf' = sectors'[Where(t)]
    BY <1>3, <1>6, <2>2
  <2> QED BY <1>11, <2>1, <2>2 DEF Transferred
<1>13. CardOf(t)'
  BY <1>3, <1>5, <1>6, <1>7, <1>11, <1>12 DEF CardOf
<1> QED BY <1>1, <1>5, <1>10, <1>13, CardStep

\* The interrupt: the result is saved and the waiting thread told.
LEMMA IrqKept ==
    ASSUME DiskInv, lhd_irq
    PROVE  DiskInv'
<1>0. DiskTypes /\ CardExact /\ irqline
  BY DEF DiskInv, lhd_irq
<1>1. PICK t \in DiskThread : io[t].at = "done"
  BY <1>0 DEF CardExact
<1>2. CardOf(t)
  BY <1>0, <1>1 DEF CardExact
<1>3. /\ lh_reg.write = io[t].write /\ lh_reg.sect = Where(t) /\ lh_done = 0
      /\ lh_reg.stat \in {"ok", "media"} /\ (lh_reg.stat = "ok" => Transferred(t))
  BY <1>0, <1>2 DEF CardOf
<1>4. /\ UNCHANGED <<lh_clear, lh_buf, sectors, io>> /\ irqline' = FALSE
      /\ lh_done' = lh_done + 1 /\ lh_result' = lhd_code_to_errno(lh_reg.stat)
      /\ lh_reg' = [lh_reg EXCEPT !.stat = "idle"]
  BY <1>3 DEF lhd_irq, lhd_iodone
<1>5. lh_done' = 1 /\ lh_result' \in {"ok", "EIO"} /\ (lh_result' = "ok" => lh_reg.stat = "ok")
  BY <1>3, <1>4 DEF lhd_code_to_errno
<1>6. /\ lh_reg' \in [stat : {"idle", "working", "ok", "media"}, write : BOOLEAN, sect : Nat]
      /\ lh_reg'.stat = "idle" /\ lh_reg'.write = io[t].write /\ lh_reg'.sect = Where(t)
  BY <1>0, <1>3, <1>4 DEF DiskTypes
<1>7. CardTypes'
  <2>1. lh_buf' \in Whose /\ sectors' \in [Sector -> Whose] /\ irqline' \in BOOLEAN
    BY <1>0, <1>4 DEF DiskTypes
  <2>2. lh_done' \in Nat /\ lh_result' \in {"ok", "EIO"}
    BY <1>5
  <2> QED BY <1>6, <2>1, <2>2 DEF CardTypes
<1>8. Where(t)' = Where(t) /\ io'[t] = io[t] /\ (Transferred(t)' <=> Transferred(t))
  BY <1>4 DEF Where, Transferred
<1>9. CardOf(t)'
  BY <1>3, <1>4, <1>5, <1>6, <1>8 DEF CardOf
<1> QED BY <1>1, <1>4, <1>7, <1>9, CardStep

\* Every step keeps the invariant.
LEMMA DiskStepInv == DiskInv /\ [DiskNext]_diskVars => DiskInv'
<1> SUFFICES ASSUME DiskInv, [DiskNext]_diskVars PROVE DiskInv'
  OBVIOUS
<1>1. CASE CardDone
  BY <1>1, CardDoneKept
<1>2. CASE lhd_irq
  BY <1>2, IrqKept
<1>3. ASSUME NEW t \in DiskThread, Request(t) PROVE DiskInv'
  BY <1>3, RequestKept
<1>4. ASSUME NEW t \in DiskThread, DiskStep(t) PROVE DiskInv'
  <2>1. CASE RawReturn(t)
    <3>1. io[t].at = "return" /\ Goes(t, "idle") /\ UNCHANGED <<cardVars, lh_clear>>
      BY <2>1 DEF RawReturn, cardVars
    <3> QED BY <3>1, BackKept
  <2> QED BY <1>4, <2>1, P_clearKept, FillKept, KickKept, P_doneKept, DrainKept, PassKept, RwblockKept DEF DiskStep
<1>5. CASE UNCHANGED diskVars
  <2>1. UNCHANGED <<lh_clear, lh_done, lh_result, lh_reg, lh_buf, irqline, sectors, io>>
    BY <1>5 DEF diskVars
  <2>2. DiskTypes' /\ OneInside' /\ RequestsExact'
    BY <2>1 DEF DiskInv, DiskTypes, OneInside, Inside, RequestsExact
  <2>3. CardExact'
    BY <2>1 DEF DiskInv, CardExact, CardOf, Transferred, Where
  <2> QED BY <2>2, <2>3 DEF DiskInv
<1> QED BY <1>1, <1>2, <1>3, <1>4, <1>5 DEF DiskNext

\* What the invariant says of the card is what its users rely on.
LEMMA DiskInvSound == DiskInv => DiskSound
<1> SUFFICES ASSUME DiskInv PROVE DiskSound
  OBVIOUS
<1>0. DiskTypes /\ OneInside /\ RequestsExact /\ CardExact
  BY DEF DiskInv
<1>1. lh_clear + Cardinality({t \in DiskThread : Inside(t)}) = 1
  <2>1. CASE \A t \in DiskThread : ~Inside(t)
    <3>1. {t \in DiskThread : Inside(t)} = {} /\ lh_clear = 1
      BY <1>0, <2>1 DEF OneInside
    <3>2. Cardinality({t \in DiskThread : Inside(t)}) = 0
      BY <3>1, FS_EmptySet
    <3> QED BY <3>1, <3>2
  <2>2. CASE \E t \in DiskThread : Inside(t)
    <3>1. PICK t \in DiskThread : Inside(t)
      BY <2>2
    <3>2. {u \in DiskThread : Inside(u)} = {t} /\ lh_clear = 0
      BY <1>0, <3>1 DEF OneInside
    <3>3. Cardinality({t}) = 1
      BY FS_Singleton
    <3> QED BY <3>2, <3>3
  <2> QED BY <2>1, <2>2
<1>2. ASSUME NEW t \in DiskThread
      PROVE  /\ io[t].at = "drain" =>
                  /\ lh_buf = sectors[io[t].sector + io[t].i]
                  /\ lh_reg = [stat |-> "idle", write |-> FALSE, sect |-> io[t].sector + io[t].i]
             /\ io[t].at = "kick" /\ io[t].write => lh_buf = t
             /\ io[t].at = "pass" /\ io[t].write /\ io[t].result = "ok" =>
                  sectors[io[t].sector + io[t].i] = t
             /\ io[t].sfs => io[t].result # "EINVAL"
  <2>1. ASSUME io[t].at = "drain"
        PROVE  /\ lh_buf = sectors[io[t].sector + io[t].i]
               /\ lh_reg = [stat |-> "idle", write |-> FALSE, sect |-> io[t].sector + io[t].i]
    <3>1. ~io[t].write /\ Transferred(t) /\ lh_reg.write = FALSE /\ lh_reg.sect = io[t].sector + io[t].i
      BY <1>0, <2>1 DEF RequestsExact, ResidExact, CardExact, Where
    <3>2. lh_reg.stat = "idle"
      BY <2>1, CardIdle DEF InPhases
    <3>3. lh_reg = [stat |-> "idle", write |-> FALSE, sect |-> io[t].sector + io[t].i]
      BY <1>0, <3>1, <3>2 DEF DiskTypes
    <3> QED BY <3>1, <3>3 DEF Transferred, Where
  <2> QED BY <1>0, <2>1 DEF CardExact, Transferred, Where, RequestsExact, ResidExact
<1>3. lh_reg.stat # "idle" \/ lh_done > 0 \/ irqline => \E t \in DiskThread : io[t].at = "done"
  BY <1>0 DEF CardExact
<1>4. lh_done <= 1
  BY <1>0 DEF CardExact, CardOf
<1> QED BY <1>1, <1>2, <1>3, <1>4 DEF DiskSound

\* lhd_io and lhd_irq, with SFS and any number of processes on the raw device:
\* one user of the card at a time, the data and the answer are that user's, and
\* SFS is never told EINVAL, whatever the medium does.
THEOREM DiskSoundThm == DiskSpec => []DiskSound
<1>1. DiskInit => DiskInv
  BY DiskInitInv
<1>2. DiskInv /\ [DiskNext]_diskVars => DiskInv'
  BY DiskStepInv
<1>3. DiskInv => DiskSound
  BY DiskInvSound
<1> QED BY <1>1, <1>2, <1>3, PTL DEF DiskSpec

-----------------------------------------------------------------------------
(* The console *)

WriterRecord == [at : {"idle", "P", "send", "return"}, left : Int, user : BOOLEAN]
PollPlaces == {"idle", "lock", "until", "send", "sent", "end"}
LineRecord == [sending : Writer \union Poller \union {Free}, wirq : BOOLEAN, rirq : BOOLEAN, char : Nat]
HandlerRecord == [on : BOOLEAN, start : BOOLEAN, input : Nat]

LineTypes ==
    /\ attached \in BOOLEAN /\ delayed \in Nat /\ cs_wsem \in Nat /\ typed \in Nat
    /\ wthread \in [Writer -> WriterRecord] /\ poller \in [Poller -> PollPlaces]
    /\ ls_lock \in Poller \union {Free} /\ ls_wbusy \in BOOLEAN
    /\ line \in LineRecord /\ handler \in HandlerRecord

\* ls_lock is held by the code that polls, inside lser_writepolled.
PollerLocks == \A p \in Poller : ls_lock = p <=> poller[p] \in {"until", "send", "sent"}

\* A character under way, or the interrupt that says that it is out: never
\* both, and one of them whenever the driver believes so.
Busy == (line.sending = Free) <=> line.wirq
Quiet == line.sending = Free /\ ~line.wirq
LineExact ==
    /\ ls_lock = Free => IF ls_wbusy THEN Busy ELSE Quiet
    /\ \A p \in Poller : /\ poller[p] = "until" => ls_wbusy /\ Busy
                         /\ poller[p] = "send" => Quiet
                         /\ poller[p] = "sent" => Busy

\* The right to write is in one of its four places.
NoSender == \A w \in Writer : wthread[w].at # "send"
TokenExact ==
    /\ cs_wsem \in {0, 1}
    /\ \A v, w \in Writer : wthread[v].at = "send" /\ wthread[w].at = "send" => v = w
    /\ cs_wsem = 1 => NoSender /\ ~ls_wbusy /\ ~handler.start
    /\ cs_wsem = 0 => NoSender \/ (~ls_wbusy /\ ~handler.start)
    /\ cs_wsem = 0 /\ NoSender => (ls_wbusy <=> ~handler.start)

LineInv ==
    /\ LineTypes /\ PollerLocks /\ LineExact /\ TokenExact /\ overrun = FALSE
    /\ handler.start => handler.on
    /\ ~attached => \A w \in Writer : wthread[w].at = "idle"

\* Nothing is written and the right to write is with cs_wsem.
LEMMA LineInit == ConInit => LineInv
<1> SUFFICES ASSUME ConInit PROVE LineInv
  OBVIOUS
<1>1. line.sending = Free /\ line.wirq = FALSE /\ line \in LineRecord
  BY DEF ConInit, LineRecord
<1>2. handler \in HandlerRecord /\ handler.start = FALSE
  BY DEF ConInit, IdleHandler, HandlerRecord
<1>3. \A w \in Writer : wthread[w].at = "idle"
  BY DEF ConInit, IdleWriter
<1>4. wthread \in [Writer -> WriterRecord] /\ poller \in [Poller -> PollPlaces]
  BY DEF ConInit, IdleWriter, WriterRecord, PollPlaces
<1>5. LineTypes
  BY <1>1, <1>2, <1>4 DEF ConInit, LineTypes
<1>6. PollerLocks
  BY ConsoleAssumption DEF ConInit, PollerLocks, Free
<1>7. LineExact
  BY <1>1 DEF ConInit, LineExact, Quiet
<1>8. TokenExact
  BY <1>2, <1>3 DEF ConInit, TokenExact, NoSender
<1> QED BY <1>2, <1>3, <1>5, <1>6, <1>7, <1>8 DEF LineInv, ConInit

\* What the invariant of the line is about.
lineVars == <<attached, delayed, wthread, poller, cs_wsem, ls_lock, ls_wbusy, line, handler, typed, overrun>>

\* Steps that have nothing to do with the line.
LEMMA LineAlone == LineInv /\ UNCHANGED lineVars => LineInv'
BY DEF LineInv, lineVars, LineTypes, PollerLocks, LineExact, Busy, Quiet, TokenExact, NoSender

\* A writer moves from one record to another.
Writes(w, r) == wthread' = [wthread EXCEPT ![w] = r]

\* One writer moves and the others stay where they are.
LEMMA WritesIs ==
    ASSUME LineInv, NEW w \in Writer, NEW r \in WriterRecord, Writes(w, r)
    PROVE  /\ wthread' \in [Writer -> WriterRecord] /\ wthread'[w] = r
           /\ \A v \in Writer : v # w => wthread'[v] = wthread[v]
BY DEF LineInv, LineTypes, Writes

\* A writer that neither gets nor gives away the right to write.
LEMMA WriterKept ==
    ASSUME LineInv, NEW w \in Writer, NEW r \in WriterRecord, Writes(w, r), r.at # "send", wthread[w].at # "send",
           UNCHANGED <<poller, cs_wsem, ls_lock, ls_wbusy, line, handler, typed, overrun>>,
           attached' \in BOOLEAN, delayed' \in Nat, attached'
    PROVE  LineInv'
<1>1. /\ wthread' \in [Writer -> WriterRecord] /\ wthread'[w] = r
      /\ \A v \in Writer : v # w => wthread'[v] = wthread[v]
  BY WritesIs
<1>2. LineTypes'
  BY <1>1 DEF LineInv, LineTypes
<1>3. PollerLocks' /\ LineExact'
  BY DEF LineInv, PollerLocks, LineExact, Busy, Quiet
<1>4. \A v \in Writer : wthread'[v].at = "send" <=> wthread[v].at = "send"
  BY <1>1
<1>5. TokenExact'
  BY <1>4 DEF LineInv, TokenExact, NoSender
<1> QED BY <1>2, <1>3, <1>5 DEF LineInv

\* putch_delayed, config_con, con_io and kprintf up to the first character, and
\* their return.
LEMMA WritersOutside ==
    ASSUME LineInv, \/ putch_delayed
                    \/ \E w \in Writer : config_con(w) \/ BeginWrite(w) \/ WriteReturn(w)
    PROVE  LineInv'
<1>1. CASE putch_delayed
  <2>1. delayed' \in Nat /\ UNCHANGED <<attached, wthread, poller, cs_wsem, ls_lock, ls_wbusy, line, handler, typed, overrun>>
    BY <1>1 DEF putch_delayed, LineInv, LineTypes, consVars, history
  <2>2. LineTypes' /\ PollerLocks' /\ LineExact'
    BY <2>1 DEF LineInv, LineTypes, PollerLocks, LineExact, Busy, Quiet
  <2>3. TokenExact'
    BY <2>1 DEF LineInv, TokenExact, NoSender
  <2> QED BY <2>1, <2>2, <2>3 DEF LineInv
<1>2. ASSUME NEW w \in Writer, config_con(w) PROVE LineInv'
  <2>1. PICK a : a = IF delayed = 0 THEN "idle" ELSE "P"
    OBVIOUS
  <2>2. PICK r : r = [IdleWriter EXCEPT !.at = a, !.left = delayed]
    OBVIOUS
  <2>3. r \in WriterRecord /\ r.at \in {"idle", "P"}
    <3>1. r = [at |-> a, left |-> delayed, user |-> FALSE]
      BY <2>2 DEF IdleWriter
    <3>2. a \in {"idle", "P"} /\ delayed \in Int
      BY <2>1 DEF LineInv, LineTypes
    <3> QED BY <3>1, <3>2 DEF WriterRecord
  <2>4. /\ Writes(w, r) /\ attached' /\ attached' \in BOOLEAN /\ delayed' \in Nat
        /\ UNCHANGED <<poller, cs_wsem, ls_lock, ls_wbusy, line, handler, typed, overrun>>
    BY <1>2, <2>1, <2>2 DEF config_con, Writes, consVars, history
  <2>5. wthread[w].at # "send"
    BY <1>2 DEF config_con, LineInv
  <2> QED BY <2>3, <2>4, <2>5, WriterKept
<1>3. ASSUME NEW w \in Writer, BeginWrite(w) PROVE LineInv'
  <2>1. /\ attached /\ attached' /\ attached' \in BOOLEAN /\ delayed' \in Nat /\ wthread[w].at = "idle"
        /\ UNCHANGED <<poller, cs_wsem, ls_lock, ls_wbusy, line, handler, typed, overrun>>
    BY <1>3 DEF BeginWrite, consVars, history, LineInv, LineTypes
  <2>2. \/ Writes(w, [at |-> "P", left |-> 2, user |-> TRUE])
        \/ Writes(w, [at |-> "P", left |-> 1, user |-> FALSE])
    BY <1>3 DEF BeginWrite, Writes
  <2>3. ASSUME NEW r, r \in WriterRecord, r.at = "P", Writes(w, r) PROVE LineInv'
    BY <2>1, <2>3, WriterKept
  <2>4. CASE Writes(w, [at |-> "P", left |-> 2, user |-> TRUE])
    <3>1. PICK r : r = [at |-> "P", left |-> 2, user |-> TRUE]
      OBVIOUS
    <3>2. r \in WriterRecord /\ r.at = "P"
      BY <3>1 DEF WriterRecord
    <3> QED BY <2>3, <2>4, <3>1, <3>2
  <2>5. CASE Writes(w, [at |-> "P", left |-> 1, user |-> FALSE])
    <3>1. PICK r : r = [at |-> "P", left |-> 1, user |-> FALSE]
      OBVIOUS
    <3>2. r \in WriterRecord /\ r.at = "P"
      BY <3>1 DEF WriterRecord
    <3> QED BY <2>3, <2>5, <3>1, <3>2
  <2> QED BY <2>2, <2>4, <2>5
<1>4. ASSUME NEW w \in Writer, WriteReturn(w) PROVE LineInv'
  <2>1. /\ wthread[w].at = "return" /\ Writes(w, IdleWriter) /\ UNCHANGED <<attached, delayed>>
        /\ UNCHANGED <<poller, cs_wsem, ls_lock, ls_wbusy, line, handler, typed, overrun>>
    BY <1>4 DEF WriteReturn, Writes, consVars, history
  <2>2. attached' /\ attached' \in BOOLEAN /\ delayed' \in Nat
    BY <2>1 DEF LineInv, LineTypes
  <2>3. IdleWriter \in WriterRecord /\ IdleWriter.at = "idle"
    BY DEF IdleWriter, WriterRecord
  <2> QED BY <2>1, <2>2, <2>3, WriterKept
<1> QED BY <1>1, <1>2, <1>3, <1>4

\* P(cs_wsem): the right to write goes to one thread.
LEMMA Putch_intrKept ==
    ASSUME LineInv, NEW w \in Writer, putch_intr(w)
    PROVE  LineInv'
<1>1. /\ wthread[w].at = "P" /\ cs_wsem > 0 /\ cs_wsem' = cs_wsem - 1
      /\ wthread' = [wthread EXCEPT ![w].at = "send"]
      /\ UNCHANGED <<attached, delayed, poller, ls_lock, ls_wbusy, line, handler, typed, overrun>>
  BY DEF putch_intr, history
<1>2. PICK r : r = [wthread[w] EXCEPT !.at = "send"]
  OBVIOUS
<1>3. r \in WriterRecord /\ r.at = "send"
  BY <1>2 DEF LineInv, LineTypes, WriterRecord
<1>4. Writes(w, r)
  BY <1>1, <1>2 DEF Writes
<1>5. /\ wthread' \in [Writer -> WriterRecord] /\ wthread'[w] = r
      /\ \A v \in Writer : v # w => wthread'[v] = wthread[v]
  BY <1>3, <1>4, WritesIs
<1>6. cs_wsem = 1 /\ cs_wsem' = 0 /\ NoSender /\ ~ls_wbusy /\ ~handler.start
  BY <1>1 DEF LineInv, TokenExact
<1>7. LineTypes'
  BY <1>1, <1>5, <1>6 DEF LineInv, LineTypes
<1>8. PollerLocks' /\ LineExact'
  BY <1>1 DEF LineInv, PollerLocks, LineExact, Busy, Quiet
<1>9. \A v \in Writer : wthread'[v].at = "send" <=> v = w
  BY <1>3, <1>5, <1>6 DEF NoSender
<1>10. TokenExact'
  BY <1>1, <1>6, <1>9 DEF TokenExact, NoSender
<1>11. attached
  BY <1>1 DEF LineInv, LineTypes
<1> QED BY <1>1, <1>6, <1>7, <1>8, <1>10, <1>11 DEF LineInv

\* lser_write: the line is free, because the right to write was.
LEMMA Lser_writeKept ==
    ASSUME LineInv, NEW w \in Writer, lser_write(w)
    PROVE  LineInv'
<1>1. /\ wthread[w].at = "send" /\ ls_lock = Free /\ ls_wbusy' = TRUE
      /\ line' = [line EXCEPT !.sending = w] /\ overrun' = (overrun \/ line.sending # Free)
      /\ wthread' = [wthread EXCEPT ![w].left = @ - 1, ![w].at = IF wthread[w].left > 1 THEN "P" ELSE "return"]
      /\ UNCHANGED <<attached, delayed, poller, cs_wsem, ls_lock, handler, typed>>
  BY DEF lser_write, Send, consVars
<1>2. wthread[w] \in WriterRecord /\ wthread \in [Writer -> WriterRecord]
  BY DEF LineInv, LineTypes
<1>3. PICK a \in {"P", "return"} : a = IF wthread[w].left > 1 THEN "P" ELSE "return"
  OBVIOUS
<1>4. PICK n \in Int : n = wthread[w].left - 1
  BY <1>2 DEF WriterRecord
<1>5. PICK q : q = [wthread[w] EXCEPT !.left = n]
  OBVIOUS
<1>6. q \in WriterRecord
  BY <1>2, <1>5 DEF WriterRecord
<1>7. PICK r : r = [q EXCEPT !.at = a]
  OBVIOUS
<1>8. r \in WriterRecord /\ r.at = a
  BY <1>3, <1>6, <1>7 DEF WriterRecord
<1>9. Writes(w, r)
  <2>1. PICK o1 : o1 = [wthread EXCEPT ![w].left = @ - 1]
    OBVIOUS
  <2>2. o1 = [wthread EXCEPT ![w] = q] /\ o1[w] = q
    BY <1>2, <1>4, <1>5, <2>1
  <2>3. wthread' = [o1 EXCEPT ![w].at = a]
    BY <1>1, <1>3, <2>1, Zenon
  <2>4. wthread' = [o1 EXCEPT ![w] = r]
    BY <1>7, <2>2, <2>3
  <2> QED BY <1>2, <2>2, <2>4 DEF Writes
<1>10. /\ wthread' \in [Writer -> WriterRecord] /\ wthread'[w] = r
       /\ \A v \in Writer : v # w => wthread'[v] = wthread[v]
  BY <1>8, <1>9, WritesIs
<1>11. /\ cs_wsem = 0 /\ ~ls_wbusy /\ ~handler.start
       /\ \A v \in Writer : v # w => wthread[v].at # "send"
  BY <1>1 DEF LineInv, TokenExact, NoSender
<1>12. line.sending = Free /\ ~line.wirq
  BY <1>1, <1>11 DEF LineInv, LineExact, Quiet
<1>13. overrun' = FALSE
  BY <1>1, <1>12 DEF LineInv
<1>14. line' \in LineRecord /\ line'.sending = w /\ line'.wirq = line.wirq /\ w # Free
  BY <1>1, ConsoleAssumption DEF LineInv, LineTypes, LineRecord, Free
<1>15. LineTypes'
  BY <1>1, <1>10, <1>14 DEF LineInv, LineTypes
<1>16. PollerLocks'
  BY <1>1 DEF LineInv, PollerLocks
<1>17. \A p \in Poller : poller'[p] \notin {"until", "send", "sent"}
  BY <1>1, ConsoleAssumption DEF LineInv, PollerLocks, Free
<1>18. LineExact'
  BY <1>1, <1>12, <1>14, <1>17 DEF LineExact, Busy
<1>19. \A v \in Writer : wthread'[v].at # "send"
  BY <1>8, <1>10, <1>11
<1>20. TokenExact'
  <2>1. cs_wsem' = 0 /\ ls_wbusy' /\ ~handler'.start
    BY <1>1, <1>11
  <2> QED BY <1>19, <2>1 DEF TokenExact, NoSender
<1>21. attached
  BY <1>1 DEF LineInv, LineTypes
<1> QED BY <1>1, <1>11, <1>13, <1>15, <1>16, <1>18, <1>20, <1>21 DEF LineInv

\* A step of the code that polls.
LEMMA PollKept ==
    ASSUME LineInv, NEW p \in Poller, NEW a \in PollPlaces, poller' = [poller EXCEPT ![p] = a],
           UNCHANGED <<attached, delayed, wthread, cs_wsem, ls_wbusy, handler, typed>>,
           overrun' = FALSE, line' \in LineRecord, ls_lock' \in Poller \union {Free},
           \/ /\ ls_lock' = ls_lock /\ (poller[p] \in {"until", "send", "sent"} <=> a \in {"until", "send", "sent"})
              /\ (poller[p] \in {"until", "send", "sent"} \/ line' = line)
           \/ ls_lock = Free /\ ls_lock' = p /\ a \in {"until", "send", "sent"}
           \/ /\ poller[p] \in {"until", "send", "sent"} /\ ls_lock' = Free /\ a \notin {"until", "send", "sent"}
              /\ IF ls_wbusy THEN Busy' ELSE Quiet',
           /\ a = "until" => ls_wbusy /\ Busy'
           /\ a = "send" => Quiet'
           /\ a = "sent" => Busy'
    PROVE  LineInv'
<1> DEFINE In(x) == x \in {"until", "send", "sent"}
<1>1. poller' \in [Poller -> PollPlaces] /\ poller'[p] = a /\ \A q \in Poller : q # p => poller'[q] = poller[q]
  BY DEF LineInv, LineTypes
<1>2. LineTypes'
  BY <1>1 DEF LineInv, LineTypes
<1>3. \A q \in Poller : ls_lock = q <=> In(poller[q])
  BY DEF LineInv, PollerLocks
<1>4. Free \notin Poller
  BY ConsoleAssumption DEF Free
<1>5. PollerLocks'
  <2>1. \A q \in Poller : ls_lock' = q <=> In(poller'[q])
    BY <1>1, <1>3, <1>4
  <2> QED BY <2>1 DEF PollerLocks
<1>6. LineExact'
  <2>1. CASE In(poller[p]) \/ In(a)
    <3>1. \A q \in Poller : q # p => ~In(poller'[q])
      BY <1>1, <1>3, <1>4, <2>1
    <3>2. ls_lock' = Free => IF ls_wbusy' THEN Busy' ELSE Quiet'
      BY <1>1, <1>3, <1>4, <2>1
    <3> QED BY <1>1, <3>1, <3>2 DEF LineExact
  <2>2. CASE ~In(poller[p]) /\ ~In(a)
    <3>1. line' = line /\ ls_lock' = ls_lock /\ ls_wbusy' = ls_wbusy
      BY <2>2
    <3>2. (Busy' <=> Busy) /\ (Quiet' <=> Quiet)
      BY <3>1 DEF Busy, Quiet
    <3> QED BY <1>1, <2>2, <3>1, <3>2 DEF LineInv, LineExact
  <2> QED BY <2>1, <2>2
<1>7. TokenExact'
  BY DEF LineInv, TokenExact, NoSender
<1> QED BY <1>2, <1>5, <1>6, <1>7 DEF LineInv

\* lser_startpolling, lser_writepolled and lser_endpolling.
LEMMA PollersKept ==
    ASSUME LineInv, NEW p \in Poller,
           \/ lser_startpolling(p) \/ PollLock(p) \/ PollUntilWrite(p) \/ PollSend(p) \/ PollSent(p)
           \/ lser_endpolling(p)
    PROVE  LineInv'
<1>0. LineTypes /\ PollerLocks /\ LineExact /\ overrun = FALSE /\ line \in LineRecord /\ Free \notin Poller
  BY ConsoleAssumption DEF LineInv, LineTypes, Free
<1>1. CASE lser_startpolling(p) \/ lser_endpolling(p)
  <2>1. PICK a \in {"lock", "idle"} : poller' = [poller EXCEPT ![p] = a]
    BY <1>1 DEF lser_startpolling, lser_endpolling
  <2>2. /\ UNCHANGED <<attached, delayed, wthread, cs_wsem, ls_lock, ls_wbusy, line, handler, typed, overrun>>
        /\ poller[p] \in {"idle", "end"}
    BY <1>1 DEF lser_startpolling, lser_endpolling, consVars, history
  <2>3. a \in PollPlaces /\ a \notin {"until", "send", "sent"} /\ poller[p] \notin {"until", "send", "sent"}
    BY <2>1, <2>2 DEF PollPlaces
  <2>4. ls_lock' \in Poller \union {Free} /\ line' \in LineRecord /\ overrun' = FALSE
    BY <1>0, <2>2 DEF LineTypes
  <2> QED BY <2>1, <2>2, <2>3, <2>4, PollKept
<1>2. CASE PollLock(p)
  <2>1. PICK a \in {"until", "send"} : a = IF ls_wbusy THEN "until" ELSE "send"
    OBVIOUS
  <2>2. /\ UNCHANGED <<attached, delayed, wthread, cs_wsem, ls_wbusy, line, handler, typed, overrun>>
        /\ poller[p] = "lock" /\ ls_lock = Free /\ ls_lock' = p /\ poller' = [poller EXCEPT ![p] = a]
    BY <1>2, <2>1 DEF PollLock, consVars, history
  <2>3. (Busy' <=> Busy) /\ (Quiet' <=> Quiet) /\ a \in PollPlaces
    BY <2>2 DEF Busy, Quiet, PollPlaces
  <2>4. (a = "until" => ls_wbusy /\ Busy') /\ (a = "send" => Quiet')
    BY <1>0, <2>1, <2>2, <2>3 DEF LineExact
  <2>5. ls_lock' \in Poller \union {Free} /\ line' \in LineRecord /\ overrun' = FALSE
    BY <1>0, <2>2
  <2> QED BY <2>1, <2>2, <2>3, <2>4, <2>5, PollKept
<1>3. CASE PollUntilWrite(p)
  <2>1. /\ UNCHANGED <<attached, delayed, wthread, cs_wsem, ls_lock, ls_wbusy, handler, typed, overrun>>
        /\ poller[p] = "until" /\ line.wirq /\ line' = [line EXCEPT !.wirq = FALSE]
        /\ poller' = [poller EXCEPT ![p] = "send"]
    BY <1>3 DEF PollUntilWrite, consVars, history
  <2>2. line' \in LineRecord /\ line'.sending = line.sending /\ line'.wirq = FALSE
    BY <1>0, <2>1 DEF LineRecord
  <2>3. Quiet'
    BY <1>0, <2>1, <2>2 DEF LineExact, Busy, Quiet
  <2>4. ls_lock' \in Poller \union {Free} /\ overrun' = FALSE /\ "send" \in PollPlaces
    BY <1>0, <2>1 DEF LineTypes, PollPlaces
  <2> QED BY <2>1, <2>2, <2>3, <2>4, PollKept
<1>4. CASE PollSend(p)
  <2>1. /\ UNCHANGED <<attached, delayed, wthread, cs_wsem, ls_lock, ls_wbusy, handler, typed>>
        /\ poller[p] = "send" /\ line' = [line EXCEPT !.sending = p] /\ overrun' = (overrun \/ line.sending # Free)
        /\ poller' = [poller EXCEPT ![p] = "sent"]
    BY <1>4 DEF PollSend, Send, consVars
  <2>2. Quiet
    BY <1>0, <2>1 DEF LineExact
  <2>3. line' \in LineRecord /\ line'.sending = p /\ line'.wirq = line.wirq
    BY <1>0, <2>1 DEF LineRecord
  <2>4. Busy' /\ overrun' = FALSE
    BY <1>0, <2>1, <2>2, <2>3 DEF Quiet, Busy
  <2>5. ls_lock' \in Poller \union {Free} /\ "sent" \in PollPlaces
    BY <1>0, <2>1 DEF LineTypes, PollPlaces
  <2> QED BY <2>1, <2>3, <2>4, <2>5, PollKept
<1>5. CASE PollSent(p)
  <2>1. /\ UNCHANGED <<attached, delayed, wthread, cs_wsem, ls_wbusy, handler, typed, overrun>>
        /\ poller[p] = "sent" /\ line.wirq /\ line' = [line EXCEPT !.wirq = ls_wbusy] /\ ls_lock' = Free
        /\ poller' = [poller EXCEPT ![p] = "end"]
    BY <1>5 DEF PollSent, StillReady, consVars, history
  <2>2. line' \in LineRecord /\ line'.sending = line.sending /\ line'.wirq = ls_wbusy
    BY <1>0, <2>1 DEF LineRecord, LineTypes
  <2>3. line.sending = Free
    BY <1>0, <2>1 DEF LineExact, Busy
  <2>4. IF ls_wbusy THEN Busy' ELSE Quiet'
    BY <2>2, <2>3 DEF Busy, Quiet
  <2>5. ls_lock' \in Poller \union {Free} /\ overrun' = FALSE /\ "end" \in PollPlaces
    BY <1>0, <2>1 DEF PollPlaces
  <2> QED BY <2>1, <2>2, <2>4, <2>5, PollKept
<1> QED BY <1>1, <1>2, <1>3, <1>4, <1>5

\* The line ends its character, a key is pressed, and lser_irq with its two calls.
LEMMA LineStep ==
    ASSUME LineInv, line' \in LineRecord, handler' \in HandlerRecord, handler'.start => handler'.on,
           UNCHANGED <<attached, delayed, wthread, poller, ls_lock, overrun>>, typed' \in Nat, TokenExact',
           ls_wbusy' \in BOOLEAN, cs_wsem' \in Nat, LineExact'
    PROVE  LineInv'
<1>1. LineTypes' /\ PollerLocks'
  BY DEF LineInv, LineTypes, PollerLocks
<1> QED BY <1>1 DEF LineInv

\* The device and its interrupt handler keep the line's invariant.
LEMMA HardwareKept ==
    ASSUME LineInv, Sent \/ Typed \/ lser_irq \/ con_start \/ con_input \/ HandlerReturn
    PROVE  LineInv'
<1>0. /\ LineTypes /\ LineExact /\ TokenExact /\ line \in LineRecord /\ handler \in HandlerRecord
      /\ (handler.start => handler.on) /\ Free \notin Poller /\ PollerLocks
  BY ConsoleAssumption DEF LineInv, LineTypes, Free
<1>1. CASE Sent
  <2>1. /\ line.sending # Free /\ line' = [line EXCEPT !.sending = Free, !.wirq = TRUE]
        /\ UNCHANGED <<attached, delayed, wthread, poller, cs_wsem, ls_lock, ls_wbusy, handler, typed, overrun>>
    BY <1>1 DEF Sent, consVars
  <2>2. PICK l1 : l1 = [line EXCEPT !.sending = Free]
    OBVIOUS
  <2>3. l1 \in LineRecord /\ l1.sending = Free
    BY <1>0, <2>2 DEF LineRecord
  <2>4. line' = [l1 EXCEPT !.wirq = TRUE]
    BY <2>1, <2>2, Zenon
  <2>5. line' \in LineRecord /\ line'.sending = Free /\ line'.wirq
    BY <2>3, <2>4 DEF LineRecord
  <2>6. ~Quiet /\ Busy'
    BY <2>1, <2>5 DEF Quiet, Busy
  <2>7. LineExact'
    BY <1>0, <2>1, <2>6 DEF LineExact
  <2>8. TokenExact'
    BY <1>0, <2>1 DEF TokenExact, NoSender
  <2>9. typed' \in Nat /\ ls_wbusy' \in BOOLEAN /\ cs_wsem' \in Nat /\ handler' \in HandlerRecord
        /\ (handler'.start => handler'.on)
    BY <1>0, <2>1 DEF LineTypes
  <2> QED BY <2>1, <2>5, <2>7, <2>8, <2>9, LineStep
<1>2. CASE Typed
  <2>1. /\ line' = [line EXCEPT !.rirq = TRUE, !.char = typed + 1] /\ typed' = typed + 1
        /\ UNCHANGED <<attached, delayed, wthread, poller, cs_wsem, ls_lock, ls_wbusy, handler, overrun>>
    BY <1>2 DEF Typed, consVars
  <2>2. PICK l1 : l1 = [line EXCEPT !.rirq = TRUE]
    OBVIOUS
  <2>3. l1 \in LineRecord /\ l1.sending = line.sending /\ l1.wirq = line.wirq
    BY <1>0, <2>2 DEF LineRecord
  <2>4. typed' \in Nat /\ line' = [l1 EXCEPT !.char = typed + 1]
    <3>1. typed' \in Nat
      BY <1>0, <2>1 DEF LineTypes
    <3>2. line' = [l1 EXCEPT !.char = typed + 1]
      BY <2>1, <2>2, Zenon
    <3> QED BY <3>1, <3>2
  <2>5. line' \in LineRecord /\ line'.sending = line.sending /\ line'.wirq = line.wirq
    BY <2>1, <2>3, <2>4 DEF LineRecord
  <2>6. (Quiet' <=> Quiet) /\ (Busy' <=> Busy)
    BY <2>5 DEF Quiet, Busy
  <2>7. LineExact'
    BY <1>0, <2>1, <2>6 DEF LineExact
  <2>8. TokenExact'
    BY <1>0, <2>1 DEF TokenExact, NoSender
  <2>9. ls_wbusy' \in BOOLEAN /\ cs_wsem' \in Nat /\ handler' \in HandlerRecord
        /\ (handler'.start => handler'.on)
    BY <1>0, <2>1 DEF LineTypes
  <2> QED BY <2>1, <2>4, <2>5, <2>7, <2>8, <2>9, LineStep
<1>3. CASE lser_irq
  <2>1. /\ ~handler.on /\ ls_lock = Free
        /\ handler' = [on |-> TRUE, start |-> line.wirq, input |-> IF line.rirq THEN line.char ELSE 0]
        /\ ls_wbusy' = IF line.wirq THEN FALSE ELSE ls_wbusy
        /\ line' = [line EXCEPT !.wirq = FALSE, !.rirq = FALSE]
        /\ UNCHANGED <<attached, delayed, wthread, poller, cs_wsem, ls_lock, typed, overrun>>
    BY <1>3 DEF lser_irq, consVars, history
  <2>2. PICK l1 : l1 = [line EXCEPT !.wirq = FALSE]
    OBVIOUS
  <2>3. l1 \in LineRecord /\ l1.sending = line.sending /\ l1.wirq = FALSE
    BY <1>0, <2>2 DEF LineRecord
  <2>4. line' = [l1 EXCEPT !.rirq = FALSE]
    BY <2>1, <2>2, Zenon
  <2>5. line' \in LineRecord /\ line'.sending = line.sending /\ line'.wirq = FALSE
    BY <2>3, <2>4 DEF LineRecord
  <2>6. PICK c \in Nat : c = IF line.rirq THEN line.char ELSE 0
    BY <1>0 DEF LineRecord
  <2>7. handler' = [on |-> TRUE, start |-> line.wirq, input |-> c] /\ line.wirq \in BOOLEAN
    BY <1>0, <2>1, <2>6 DEF LineRecord
  <2>8. handler' \in HandlerRecord /\ handler'.on /\ handler'.start = line.wirq
    BY <2>7 DEF HandlerRecord
  <2>9. \A p \in Poller : poller[p] \notin {"until", "send", "sent"}
    BY <1>0, <2>1 DEF PollerLocks
  <2>10. CASE line.wirq
    <3>1. ls_wbusy /\ line.sending = Free /\ ls_wbusy' = FALSE
      BY <1>0, <2>1, <2>10 DEF LineExact, Busy, Quiet
    <3>2. Quiet'
      BY <2>5, <3>1 DEF Quiet
    <3>3. LineExact'
      BY <2>1, <2>9, <3>1, <3>2 DEF LineExact
    <3>4. cs_wsem = 0 /\ NoSender
      BY <1>0, <3>1 DEF TokenExact
    <3>5. handler'.start
      BY <2>8, <2>10
    <3>6. TokenExact'
      <4>1. cs_wsem' = 0 /\ ~ls_wbusy' /\ NoSender'
        BY <2>1, <3>1, <3>4 DEF NoSender
      <4>2. \A v, w \in Writer : wthread'[v].at = "send" /\ wthread'[w].at = "send" => v = w
        BY <4>1 DEF NoSender
      <4>3. cs_wsem' \in {0, 1} /\ cs_wsem' # 1
        BY <4>1
      <4>4. ls_wbusy' <=> ~handler'.start
        BY <3>5, <4>1
      <4> QED BY <4>1, <4>2, <4>3, <4>4 DEF TokenExact
    <3>7. typed' \in Nat /\ ls_wbusy' \in BOOLEAN /\ cs_wsem' \in Nat
      BY <1>0, <2>1, <3>1 DEF LineTypes
    <3> QED BY <2>1, <2>5, <2>8, <3>3, <3>6, <3>7, LineStep
  <2>11. CASE ~line.wirq
    <3>1. ls_wbusy' = ls_wbusy /\ ~handler'.start /\ ~handler.start
      BY <1>0, <2>1, <2>8, <2>11
    <3>2. (Quiet' <=> Quiet) /\ (Busy' <=> Busy)
      BY <2>5, <2>11 DEF Quiet, Busy
    <3>3. LineExact'
      BY <1>0, <2>1, <3>1, <3>2 DEF LineExact
    <3>4. TokenExact'
      BY <1>0, <2>1, <3>1 DEF TokenExact, NoSender
    <3>5. typed' \in Nat /\ ls_wbusy' \in BOOLEAN /\ cs_wsem' \in Nat
      BY <1>0, <2>1, <3>1 DEF LineTypes
    <3> QED BY <2>1, <2>5, <2>8, <3>3, <3>4, <3>5, LineStep
  <2> QED BY <2>10, <2>11
<1>4. CASE con_start
  <2>1. /\ handler.on /\ handler.start /\ cs_wsem' = cs_wsem + 1 /\ handler' = [handler EXCEPT !.start = FALSE]
        /\ UNCHANGED <<attached, delayed, wthread, poller, ls_lock, ls_wbusy, line, typed, overrun>>
    BY <1>4 DEF con_start, history
  <2>2. handler' \in HandlerRecord /\ ~handler'.start
    BY <1>0, <2>1 DEF HandlerRecord
  <2>3. cs_wsem = 0 /\ cs_wsem' = 1 /\ NoSender /\ ~ls_wbusy
    BY <1>0, <2>1 DEF TokenExact
  <2>4. TokenExact'
    BY <2>1, <2>2, <2>3 DEF TokenExact, NoSender
  <2>5. LineExact'
    BY <1>0, <2>1 DEF LineExact, Busy, Quiet
  <2>6. typed' \in Nat /\ ls_wbusy' \in BOOLEAN /\ cs_wsem' \in Nat /\ line' \in LineRecord
    BY <1>0, <2>1, <2>3 DEF LineTypes
  <2> QED BY <2>1, <2>2, <2>4, <2>5, <2>6, LineStep
<1>5. CASE con_input \/ HandlerReturn
  <2>1. /\ ~handler.start /\ handler' = IdleHandler /\ cs_wsem' = cs_wsem
        /\ UNCHANGED <<attached, delayed, wthread, poller, ls_lock, ls_wbusy, line, typed, overrun>>
    BY <1>5 DEF con_input, HandlerReturn, history, consVars
  <2>2. handler' \in HandlerRecord /\ ~handler'.start
    BY <2>1 DEF IdleHandler, HandlerRecord
  <2>3. TokenExact'
    BY <1>0, <2>1, <2>2 DEF TokenExact, NoSender
  <2>4. LineExact'
    BY <1>0, <2>1 DEF LineExact, Busy, Quiet
  <2>5. typed' \in Nat /\ ls_wbusy' \in BOOLEAN /\ cs_wsem' \in Nat /\ line' \in LineRecord
    BY <1>0, <2>1 DEF LineTypes
  <2> QED BY <2>1, <2>2, <2>3, <2>4, <2>5, LineStep
<1> QED BY <1>1, <1>2, <1>3, <1>4, <1>5

-----------------------------------------------------------------------------
(* What is typed *)

\* How many characters wait in the ring, and where the j-th is.
Used(h, t) == (h - t) % CONSOLE_INPUT_BUFFER_SIZE
Nth(t, j) == (t + j) % CONSOLE_INPUT_BUFFER_SIZE

\* The arithmetic of the ring, without remainders.
LEMMA RingIs ==
    ASSUME NEW h \in Slots, NEW t \in Slots
    PROVE  /\ h \in Nat /\ h < CONSOLE_INPUT_BUFFER_SIZE /\ CONSOLE_INPUT_BUFFER_SIZE \in Nat
           /\ nexthead(h) \in Slots
           /\ nexthead(h) = (IF h + 1 = CONSOLE_INPUT_BUFFER_SIZE THEN 0 ELSE h + 1)
           /\ Used(h, t) \in Nat /\ Used(h, t) < CONSOLE_INPUT_BUFFER_SIZE
           /\ Used(h, t) = (IF h >= t THEN h - t ELSE (h - t) + CONSOLE_INPUT_BUFFER_SIZE)
           /\ \A j \in Nat : j < CONSOLE_INPUT_BUFFER_SIZE =>
                /\ Nth(t, j) \in Slots
                /\ Nth(t, j) = (IF t + j < CONSOLE_INPUT_BUFFER_SIZE THEN t + j
                                ELSE (t + j) - CONSOLE_INPUT_BUFFER_SIZE)
<1> DEFINE N == CONSOLE_INPUT_BUFFER_SIZE
<1>0. N \in Nat /\ N > 0 /\ h \in Nat /\ t \in Nat /\ h < N /\ t < N
  BY ConsoleAssumption DEF Slots
<1> HIDE DEF N
<1>1. \A a \in Nat : a < N => a % N = a
  BY <1>0
<1>2. \A a \in Nat : a >= N /\ a < 2 * N => a % N = a - N
  BY <1>0
<1>3. \A a \in Int : a < 0 /\ a >= -N => a % N = a + N
  BY <1>0
<1>4. N % N = 0
  BY <1>0
<1>5. nexthead(h) = (IF h + 1 = N THEN 0 ELSE h + 1)
  <2>1. nexthead(h) = (h + 1) % N
    BY DEF nexthead, N
  <2> QED BY <1>0, <1>1, <1>4, <2>1
<1>6. Used(h, t) = (IF h >= t THEN h - t ELSE (h - t) + N)
  <2>1. Used(h, t) = (h - t) % N
    BY DEF Used, N
  <2> QED BY <1>0, <1>1, <1>3, <2>1
<1>7. ASSUME NEW j \in Nat, j < N
      PROVE  Nth(t, j) = (IF t + j < N THEN t + j ELSE (t + j) - N) /\ Nth(t, j) \in Nat /\ Nth(t, j) < N
  <2>1. Nth(t, j) = (t + j) % N
    BY DEF Nth, N
  <2> QED BY <1>0, <1>1, <1>2, <1>7, <2>1
<1>8. \A a \in Nat : a < N => a \in Slots
  BY <1>0 DEF Slots, N
<1>9. Used(h, t) \in Nat /\ Used(h, t) < N /\ nexthead(h) \in Nat /\ nexthead(h) < N
  BY <1>0, <1>5, <1>6
<1> QED BY <1>0, <1>5, <1>6, <1>7, <1>8, <1>9 DEF N

\* A character is put at the head of a ring that is not full.
LEMMA RingPut ==
    ASSUME NEW h \in Slots, NEW t \in Slots, nexthead(h) # t
    PROVE  /\ Used(nexthead(h), t) = Used(h, t) + 1
           /\ Nth(t, Used(h, t)) = h
           /\ \A j \in Nat : j < Used(h, t) => Nth(t, j) # h
<1> DEFINE N == CONSOLE_INPUT_BUFFER_SIZE
<1>1. /\ h \in Nat /\ h < N /\ N \in Nat /\ nexthead(h) \in Slots
      /\ nexthead(h) = (IF h + 1 = N THEN 0 ELSE h + 1)
      /\ Used(h, t) \in Nat /\ Used(h, t) < N
      /\ Used(h, t) = (IF h >= t THEN h - t ELSE (h - t) + N)
      /\ \A j \in Nat : j < N => Nth(t, j) = (IF t + j < N THEN t + j ELSE (t + j) - N)
  BY RingIs
<1>2. t \in Nat /\ t < N
  BY RingIs
<1>3. Used(nexthead(h), t) = (IF nexthead(h) >= t THEN nexthead(h) - t ELSE (nexthead(h) - t) + N)
  BY <1>1, RingIs
<1> HIDE DEF N
<1>4. Used(nexthead(h), t) = Used(h, t) + 1
  BY <1>1, <1>2, <1>3
<1>5. Nth(t, Used(h, t)) = h
  BY <1>1, <1>2
<1>6. \A j \in Nat : j < Used(h, t) => Nth(t, j) # h
  BY <1>1, <1>2
<1> QED BY <1>4, <1>5, <1>6

\* The tail of a ring that is not empty moves.
LEMMA RingGet ==
    ASSUME NEW h \in Slots, NEW t \in Slots, Used(h, t) >= 1
    PROVE  /\ Used(h, nexthead(t)) = Used(h, t) - 1
           /\ \A j \in Nat : j + 1 < CONSOLE_INPUT_BUFFER_SIZE => Nth(nexthead(t), j) = Nth(t, j + 1)
           /\ Nth(t, 0) = t
<1> DEFINE N == CONSOLE_INPUT_BUFFER_SIZE
<1>1. /\ N \in Nat /\ nexthead(t) \in Slots
      /\ nexthead(t) = (IF t + 1 = N THEN 0 ELSE t + 1)
      /\ Used(h, t) \in Nat /\ Used(h, t) < N
      /\ Used(h, t) = (IF h >= t THEN h - t ELSE (h - t) + N)
      /\ \A j \in Nat : j < N => Nth(t, j) = (IF t + j < N THEN t + j ELSE (t + j) - N)
  BY RingIs
<1>2. t \in Nat /\ t < N /\ h \in Nat /\ h < N
  BY RingIs
<1>0. PICK u \in Slots : u = nexthead(t)
  BY <1>1
<1>3. Used(h, u) = (IF h >= u THEN h - u ELSE (h - u) + N) /\ u \in Nat
  <2>1. Used(h, u) = (IF h >= u THEN h - u ELSE (h - u) + N)
    BY RingIs
  <2>2. u \in Nat
    BY RingIs
  <2> QED BY <2>1, <2>2
<1>4. \A j \in Nat : j < N => Nth(u, j) = (IF u + j < N THEN u + j ELSE (u + j) - N)
  BY RingIs
<1> HIDE DEF N
<1>5. Used(h, nexthead(t)) = Used(h, t) - 1
  BY <1>0, <1>1, <1>2, <1>3
<1>6. ASSUME NEW j \in Nat, j + 1 < N PROVE Nth(nexthead(t), j) = Nth(t, j + 1)
  BY <1>0, <1>1, <1>2, <1>3, <1>4, <1>6
<1>7. Nth(t, 0) = t
  BY <1>1, <1>2
<1> QED BY <1>5, <1>6, <1>7 DEF N

ReadTypes ==
    /\ rthread \in [Reader -> {"idle", "P", "move"}] /\ con_userlock_read \in Reader \union {Free}
    /\ cs_rsem \in Nat /\ cs_gotchars \in [Slots -> Nat]
    /\ cs_gotchars_head \in Slots /\ cs_gotchars_tail \in Slots
    /\ accepted \in Seq(Nat) /\ read \in Seq(Nat)

\* Between lock and unlock, one reader.
ReaderLocks == \A r \in Reader : con_userlock_read = r <=> rthread[r] \in {"P", "move"}

NoMover == \A r \in Reader : rthread[r] # "move"

\* What was accepted is what was read and then what is in the ring, from the
\* m-th on; cs_rsem counts the latter.
Unread(m, h, t, chars, acc, rd, sem) ==
    /\ Used(h, t) >= m /\ sem = Used(h, t) - m /\ Len(acc) = Len(rd) + (Used(h, t) - m)
    /\ \A k \in 1..Len(rd) : acc[k] = rd[k]
    /\ \A k \in Nat : k < Used(h, t) - m => acc[Len(rd) + k + 1] = chars[Nth(t, m + k)]

RingExact ==
    Unread(IF NoMover THEN 0 ELSE 1, cs_gotchars_head, cs_gotchars_tail, cs_gotchars, accepted, read, cs_rsem)

ReadInv == ReadTypes /\ ReaderLocks /\ RingExact

readVars == <<rthread, con_userlock_read, cs_rsem, cs_gotchars, cs_gotchars_head, cs_gotchars_tail, accepted, read>>

\* Steps that have nothing to do with reading.
LEMMA ReadAlone == ReadInv /\ UNCHANGED readVars => ReadInv'
BY DEF ReadInv, readVars, ReadTypes, ReaderLocks, RingExact, NoMover

\* The ring starts empty.
LEMMA ReadInit == ConInit => ReadInv
<1> SUFFICES ASSUME ConInit PROVE ReadInv
  OBVIOUS
<1>1. ReadTypes /\ 0 \in Slots
  BY ConsoleAssumption DEF ConInit, ReadTypes, Slots
<1>2. ReaderLocks /\ NoMover
  BY ConsoleAssumption DEF ConInit, ReaderLocks, NoMover, Free
<1>3. Used(0, 0) = 0
  BY <1>1, RingIs
<1>4. Unread(0, 0, 0, cs_gotchars, <<>>, <<>>, 0)
  BY <1>3 DEF Unread
<1>5. RingExact
  BY <1>2, <1>4 DEF RingExact, ConInit
<1> QED BY <1>1, <1>2, <1>5 DEF ReadInv

\* con_input: a character at the head.
LEMMA PutKeeps ==
    ASSUME NEW m \in {0, 1}, NEW h \in Slots, NEW t \in Slots, NEW chars \in [Slots -> Nat],
           NEW acc \in Seq(Nat), NEW rd \in Seq(Nat), NEW sem \in Nat, NEW c \in Nat,
           Unread(m, h, t, chars, acc, rd, sem), nexthead(h) # t
    PROVE  Unread(m, nexthead(h), t, [chars EXCEPT ![h] = c], Append(acc, c), rd, sem + 1)
<1> DEFINE n == Used(h, t)
           new == [chars EXCEPT ![h] = c]
           long == Append(acc, c)
<1>1. /\ Used(nexthead(h), t) = n + 1 /\ Nth(t, n) = h
      /\ \A j \in Nat : j < n => Nth(t, j) # h
  BY RingPut
<1>2. n \in Nat /\ n < CONSOLE_INPUT_BUFFER_SIZE /\ CONSOLE_INPUT_BUFFER_SIZE \in Nat
  BY RingIs
<1>3. \A j \in Nat : j < CONSOLE_INPUT_BUFFER_SIZE => Nth(t, j) \in Slots
  BY RingIs
<1>4. /\ n >= m /\ sem = n - m /\ Len(acc) = Len(rd) + (n - m)
      /\ \A k \in 1..Len(rd) : acc[k] = rd[k]
      /\ \A k \in Nat : k < n - m => acc[Len(rd) + k + 1] = chars[Nth(t, m + k)]
  BY DEF Unread
<1>5. new[h] = c /\ \A s \in Slots : s # h => new[s] = chars[s]
  OBVIOUS
<1>6. Len(long) = Len(acc) + 1 /\ long[Len(acc) + 1] = c /\ \A k \in 1..Len(acc) : long[k] = acc[k]
  OBVIOUS
<1>7. Len(acc) \in Nat /\ Len(rd) \in Nat /\ m \in Nat
  OBVIOUS
<1> HIDE DEF n, new, long
<1>8. \A k \in 1..Len(rd) : long[k] = rd[k]
  BY <1>4, <1>6, <1>7, <1>2
<1>9. ASSUME NEW k \in Nat, k < (n + 1) - m PROVE long[Len(rd) + k + 1] = new[Nth(t, m + k)]
  <2>1. CASE k = n - m
    <3>1. m + k = n /\ Len(rd) + k + 1 = Len(acc) + 1
      BY <1>2, <1>4, <1>7, <2>1
    <3> QED BY <1>1, <1>5, <1>6, <3>1
  <2>2. CASE k # n - m
    <3>1. k < n - m /\ m + k \in Nat /\ m + k < n /\ Len(rd) + k + 1 \in 1..Len(acc)
      BY <1>2, <1>4, <1>7, <1>9, <2>2
    <3>2. Nth(t, m + k) \in Slots /\ Nth(t, m + k) # h
      BY <1>1, <1>2, <1>3, <3>1
    <3> QED BY <1>4, <1>5, <1>6, <3>1, <3>2
  <2> QED BY <2>1, <2>2
<1>10. n + 1 >= m /\ sem + 1 = (n + 1) - m /\ Len(long) = Len(rd) + ((n + 1) - m)
  BY <1>2, <1>4, <1>6, <1>7
<1> QED BY <1>1, <1>8, <1>9, <1>10 DEF Unread, new, long

\* getch_intr: the character at the tail is read.
LEMMA GetKeeps ==
    ASSUME NEW h \in Slots, NEW t \in Slots, NEW chars \in [Slots -> Nat],
           NEW acc \in Seq(Nat), NEW rd \in Seq(Nat), NEW sem \in Nat,
           Unread(0, h, t, chars, acc, rd, sem), sem > 0
    PROVE  Unread(1, h, t, chars, acc, Append(rd, chars[t]), sem - 1)
<1> DEFINE n == Used(h, t)
           long == Append(rd, chars[t])
<1>1. /\ n >= 0 /\ sem = n - 0 /\ Len(acc) = Len(rd) + (n - 0)
      /\ \A k \in 1..Len(rd) : acc[k] = rd[k]
      /\ \A k \in Nat : k < n - 0 => acc[Len(rd) + k + 1] = chars[Nth(t, 0 + k)]
  BY DEF Unread
<1>2. n \in Nat
  BY RingIs
<1>3. n >= 1
  BY <1>1, <1>2
<1>4. Nth(t, 0) = t
  BY <1>3, RingGet
<1>5. Len(long) = Len(rd) + 1 /\ long[Len(rd) + 1] = chars[t] /\ \A k \in 1..Len(rd) : long[k] = rd[k]
  OBVIOUS
<1>6. Len(acc) \in Nat /\ Len(rd) \in Nat
  OBVIOUS
<1> HIDE DEF n, long
<1>7. acc[Len(rd) + 1] = chars[t]
  <2>1. 0 \in Nat /\ 0 < n - 0 /\ Len(rd) + 0 + 1 = Len(rd) + 1 /\ 0 + 0 = 0
    BY <1>2, <1>3, <1>6
  <2> QED BY <1>1, <1>4, <2>1
<1>8. \A k \in 1..Len(long) : acc[k] = long[k]
  <2>1. ASSUME NEW k \in 1..Len(long) PROVE k = Len(rd) + 1 \/ k \in 1..Len(rd)
    BY <1>5, <1>6
  <2> QED BY <1>1, <1>5, <1>7, <2>1
<1>9. ASSUME NEW k \in Nat, k < n - 1 PROVE acc[Len(long) + k + 1] = chars[Nth(t, 1 + k)]
  <2>1. PICK j \in Nat : j = k + 1
    OBVIOUS
  <2>2. j < n - 0 /\ Len(long) + k + 1 = Len(rd) + j + 1 /\ 0 + j = 1 + k
    BY <1>2, <1>5, <1>6, <1>9, <2>1
  <2>3. acc[Len(rd) + j + 1] = chars[Nth(t, 0 + j)]
    BY <1>1, <2>2
  <2> QED BY <2>2, <2>3
<1>10. n >= 1 /\ sem - 1 = n - 1 /\ Len(acc) = Len(long) + (n - 1)
  BY <1>1, <1>2, <1>3, <1>5, <1>6
<1> QED BY <1>8, <1>9, <1>10 DEF Unread, n, long

\* Then the tail moves over it.
LEMMA MoveKeeps ==
    ASSUME NEW h \in Slots, NEW t \in Slots, NEW chars \in [Slots -> Nat],
           NEW acc \in Seq(Nat), NEW rd \in Seq(Nat), NEW sem \in Nat,
           Unread(1, h, t, chars, acc, rd, sem)
    PROVE  Unread(0, h, nexthead(t), chars, acc, rd, sem)
<1> DEFINE n == Used(h, t)
<1>1. /\ n >= 1 /\ sem = n - 1 /\ Len(acc) = Len(rd) + (n - 1)
      /\ \A k \in 1..Len(rd) : acc[k] = rd[k]
      /\ \A k \in Nat : k < n - 1 => acc[Len(rd) + k + 1] = chars[Nth(t, 1 + k)]
  BY DEF Unread
<1>2. n \in Nat /\ n < CONSOLE_INPUT_BUFFER_SIZE /\ CONSOLE_INPUT_BUFFER_SIZE \in Nat
  BY RingIs
<1>3. /\ Used(h, nexthead(t)) = n - 1
      /\ \A j \in Nat : j + 1 < CONSOLE_INPUT_BUFFER_SIZE => Nth(nexthead(t), j) = Nth(t, j + 1)
  BY <1>1, RingGet
<1> HIDE DEF n
<1>4. ASSUME NEW k \in Nat, k < (n - 1) - 0 PROVE acc[Len(rd) + k + 1] = chars[Nth(nexthead(t), 0 + k)]
  <2>1. k < n - 1 /\ k + 1 < CONSOLE_INPUT_BUFFER_SIZE /\ 0 + k = k /\ 1 + k = k + 1
    BY <1>2, <1>4
  <2>2. Nth(nexthead(t), k) = Nth(t, k + 1)
    BY <1>3, <2>1
  <2> QED BY <1>1, <2>1, <2>2
<1>5. n - 1 >= 0 /\ sem = (n - 1) - 0 /\ Len(acc) = Len(rd) + ((n - 1) - 0)
  BY <1>1, <1>2
<1> QED BY <1>1, <1>3, <1>4, <1>5 DEF Unread

\* con_input: the character is appended, or dropped when the ring is full.
LEMMA InputKept ==
    ASSUME LineInv, ReadInv, con_input
    PROVE  ReadInv'
<1>1. CASE InputFull
  <2>1. UNCHANGED readVars
    BY <1>1 DEF con_input, readVars, consVars, userVars
  <2> QED BY <2>1, ReadAlone
<1>2. CASE ~InputFull
  <2>1. /\ cs_gotchars' = [cs_gotchars EXCEPT ![cs_gotchars_head] = handler.input]
        /\ cs_gotchars_head' = nexthead(cs_gotchars_head) /\ cs_rsem' = cs_rsem + 1
        /\ accepted' = Append(accepted, handler.input)
        /\ UNCHANGED <<cs_gotchars_tail, rthread, con_userlock_read, read>>
    BY <1>2 DEF con_input, userVars
  <2>2. handler.input \in Nat /\ ReadTypes /\ nexthead(cs_gotchars_head) # cs_gotchars_tail
    BY <1>2 DEF LineInv, LineTypes, HandlerRecord, ReadInv, InputFull
  <2>3. nexthead(cs_gotchars_head) \in Slots
    BY <2>2, RingIs DEF ReadTypes
  <2>4. ReadTypes'
    <3>1. cs_gotchars' \in [Slots -> Nat]
      BY <2>1, <2>2 DEF ReadTypes
    <3>2. accepted' \in Seq(Nat) /\ cs_rsem' \in Nat
      BY <2>1, <2>2 DEF ReadTypes
    <3> QED BY <2>1, <2>2, <2>3, <3>1, <3>2 DEF ReadTypes
  <2>5. ReaderLocks' /\ (NoMover' <=> NoMover)
    BY <2>1 DEF ReadInv, ReaderLocks, NoMover
  <2>6. PICK m \in {0, 1} : m = IF NoMover THEN 0 ELSE 1
    OBVIOUS
  <2>7. Unread(m, cs_gotchars_head, cs_gotchars_tail, cs_gotchars, accepted, read, cs_rsem)
    BY <2>6 DEF ReadInv, RingExact
  <2>8. Unread(m, nexthead(cs_gotchars_head), cs_gotchars_tail,
               [cs_gotchars EXCEPT ![cs_gotchars_head] = handler.input],
               Append(accepted, handler.input), read, cs_rsem + 1)
    BY <2>2, <2>7, PutKeeps DEF ReadTypes
  <2>9. Unread(m, cs_gotchars_head', cs_gotchars_tail', cs_gotchars', accepted', read', cs_rsem')
    BY <2>1, <2>8, Zenon
  <2>10. RingExact'
    BY <2>5, <2>6, <2>9 DEF RingExact
  <2> QED BY <2>4, <2>5, <2>10 DEF ReadInv
<1> QED BY <1>1, <1>2

\* con_io reading: lock, getch, unlock.
LEMMA ReadersKept ==
    ASSUME ReadInv, NEW r \in Reader, BeginRead(r) \/ GetchP(r) \/ GetchMove(r)
    PROVE  ReadInv'
<1>0. ReadTypes /\ ReaderLocks /\ RingExact /\ Free \notin Reader
  BY ConsoleAssumption DEF ReadInv, Free
<1>1. CASE BeginRead(r)
  <2>1. /\ rthread[r] = "idle" /\ con_userlock_read = Free /\ con_userlock_read' = r
        /\ rthread' = [rthread EXCEPT ![r] = "P"]
        /\ UNCHANGED <<cs_rsem, cs_gotchars, cs_gotchars_head, cs_gotchars_tail, accepted, read>>
    BY <1>1 DEF BeginRead, consVars, history
  <2>2. ReadTypes' /\ ReaderLocks' /\ (NoMover' <=> NoMover)
    BY <1>0, <2>1 DEF ReadTypes, ReaderLocks, NoMover
  <2>3. RingExact'
    BY <1>0, <2>1, <2>2 DEF RingExact
  <2> QED BY <2>2, <2>3 DEF ReadInv
<1>2. CASE GetchP(r)
  <2>1. /\ rthread[r] = "P" /\ cs_rsem > 0 /\ cs_rsem' = cs_rsem - 1
        /\ read' = Append(read, cs_gotchars[cs_gotchars_tail]) /\ rthread' = [rthread EXCEPT ![r] = "move"]
        /\ UNCHANGED <<con_userlock_read, cs_gotchars, cs_gotchars_head, cs_gotchars_tail, accepted>>
    BY <1>2 DEF GetchP, userVars
  <2>2. NoMover /\ ~NoMover' /\ ReaderLocks'
    BY <1>0, <2>1 DEF ReadTypes, ReaderLocks, NoMover
  <2>3. ReadTypes'
    <3>1. read' \in Seq(Nat) /\ cs_rsem' \in Nat
      BY <1>0, <2>1 DEF ReadTypes
    <3>2. rthread' \in [Reader -> {"idle", "P", "move"}]
      BY <1>0, <2>1 DEF ReadTypes
    <3> QED BY <1>0, <2>1, <3>1, <3>2 DEF ReadTypes
  <2>4. Unread(0, cs_gotchars_head, cs_gotchars_tail, cs_gotchars, accepted, read, cs_rsem)
    BY <1>0, <2>2 DEF RingExact
  <2>5. Unread(1, cs_gotchars_head, cs_gotchars_tail, cs_gotchars, accepted,
               Append(read, cs_gotchars[cs_gotchars_tail]), cs_rsem - 1)
    BY <1>0, <2>1, <2>4, GetKeeps DEF ReadTypes
  <2>6. Unread(1, cs_gotchars_head', cs_gotchars_tail', cs_gotchars', accepted', read', cs_rsem')
    BY <2>1, <2>5, Zenon
  <2>7. RingExact'
    BY <2>2, <2>6 DEF RingExact
  <2> QED BY <2>2, <2>3, <2>7 DEF ReadInv
<1>3. CASE GetchMove(r)
  <2>1. /\ rthread[r] = "move" /\ cs_gotchars_tail' = nexthead(cs_gotchars_tail) /\ con_userlock_read' = Free
        /\ rthread' = [rthread EXCEPT ![r] = "idle"]
        /\ UNCHANGED <<cs_rsem, cs_gotchars, cs_gotchars_head, accepted, read>>
    BY <1>3 DEF GetchMove, history
  <2>2. ~NoMover /\ NoMover' /\ ReaderLocks'
    BY <1>0, <2>1 DEF ReadTypes, ReaderLocks, NoMover
  <2>3. ReadTypes'
    <3>1. nexthead(cs_gotchars_tail) \in Slots
      BY <1>0, RingIs DEF ReadTypes
    <3>2. rthread' \in [Reader -> {"idle", "P", "move"}]
      BY <1>0, <2>1 DEF ReadTypes
    <3> QED BY <1>0, <2>1, <3>1, <3>2 DEF ReadTypes
  <2>4. Unread(1, cs_gotchars_head, cs_gotchars_tail, cs_gotchars, accepted, read, cs_rsem)
    BY <1>0, <2>2 DEF RingExact
  <2>5. Unread(0, cs_gotchars_head, nexthead(cs_gotchars_tail), cs_gotchars, accepted, read, cs_rsem)
    BY <1>0, <2>4, MoveKeeps DEF ReadTypes
  <2>6. Unread(0, cs_gotchars_head', cs_gotchars_tail', cs_gotchars', accepted', read', cs_rsem')
    BY <2>1, <2>5, Zenon
  <2>7. RingExact'
    BY <2>2, <2>6 DEF RingExact
  <2> QED BY <2>2, <2>3, <2>7 DEF ReadInv
<1> QED BY <1>1, <1>2, <1>3

ConInv == LineInv /\ ReadInv

\* Every step keeps the two invariants.
LEMMA ConStepInv == ConInv /\ [ConNext]_conVars => ConInv'
<1> SUFFICES ASSUME LineInv, ReadInv, [ConNext]_conVars PROVE LineInv' /\ ReadInv'
  BY DEF ConInv
<1>1. CASE putch_delayed \/ (\E w \in Writer : config_con(w) \/ BeginWrite(w) \/ WriteReturn(w))
  <2>1. UNCHANGED readVars
    BY <1>1 DEF putch_delayed, config_con, BeginWrite, WriteReturn, readVars, userVars, consVars, history
  <2> QED BY <1>1, <2>1, WritersOutside, ReadAlone
<1>2. ASSUME NEW w \in Writer, putch_intr(w) \/ lser_write(w) PROVE LineInv' /\ ReadInv'
  <2>1. UNCHANGED readVars
    BY <1>2 DEF putch_intr, lser_write, readVars, userVars, consVars, history
  <2> QED BY <1>2, <2>1, Putch_intrKept, Lser_writeKept, ReadAlone
<1>3. ASSUME NEW p \in Poller, \/ lser_startpolling(p) \/ PollLock(p) \/ PollUntilWrite(p) \/ PollSend(p)
                               \/ PollSent(p) \/ lser_endpolling(p)
      PROVE  LineInv' /\ ReadInv'
  <2>1. UNCHANGED readVars
    BY <1>3 DEF lser_startpolling, PollLock, PollUntilWrite, PollSend, PollSent, lser_endpolling,
                readVars, userVars, consVars, history
  <2> QED BY <1>3, <2>1, PollersKept, ReadAlone
<1>4. CASE Sent \/ Typed \/ lser_irq \/ con_start \/ HandlerReturn
  <2>1. UNCHANGED readVars
    BY <1>4 DEF Sent, Typed, lser_irq, con_start, HandlerReturn, readVars, userVars, consVars, history
  <2> QED BY <1>4, <2>1, HardwareKept, ReadAlone
<1>5. CASE con_input
  BY <1>5, HardwareKept, InputKept
<1>6. ASSUME NEW r \in Reader, BeginRead(r) \/ GetchP(r) \/ GetchMove(r) PROVE LineInv' /\ ReadInv'
  <2>1. UNCHANGED lineVars
    BY <1>6 DEF BeginRead, GetchP, GetchMove, lineVars, consVars, history
  <2> QED BY <1>6, <2>1, ReadersKept, LineAlone
<1>7. CASE UNCHANGED conVars
  <2>1. UNCHANGED lineVars /\ UNCHANGED readVars
    BY <1>7 DEF conVars, lineVars, readVars
  <2> QED BY <2>1, LineAlone, ReadAlone
<1> QED BY <1>1, <1>2, <1>3, <1>4, <1>5, <1>6, <1>7 DEF ConNext, ConStep

\* A sequence is a prefix of it and the rest.
LEMMA JoinIs ==
    ASSUME NEW a \in Seq(Nat), NEW r \in Seq(Nat), NEW d \in Nat, Len(a) = Len(r) + d,
           \A k \in 1..Len(r) : a[k] = r[k]
    PROVE  a = r \o [k \in 1..d |-> a[Len(r) + k]]
<1>1. PICK w : w = [k \in 1..d |-> a[Len(r) + k]]
  OBVIOUS
<1>2. Len(r) \in Nat /\ Len(a) \in Nat
  OBVIOUS
<1>3. \A k \in 1..d : a[Len(r) + k] \in Nat
  <2> SUFFICES ASSUME NEW k \in 1..d PROVE a[Len(r) + k] \in Nat
    OBVIOUS
  <2>1. Len(r) + k \in 1..Len(a)
    BY <1>2
  <2> QED BY <2>1
<1>4. w \in [1..d -> Nat]
  BY <1>1, <1>3
<1>5. w \in Seq(Nat) /\ Len(w) = d /\ \A k \in 1..d : w[k] = a[Len(r) + k]
  <2>1. w \in Seq(Nat)
    BY <1>4
  <2>2. \A k \in 1..d : w[k] = a[Len(r) + k]
    BY <1>1
  <2>3. Len(w) = d
    BY <1>4, <2>1
  <2> QED BY <2>1, <2>2, <2>3
<1>6. /\ r \o w \in Seq(Nat) /\ Len(r \o w) = Len(r) + Len(w)
      /\ \A k \in 1..(Len(r) + Len(w)) : (r \o w)[k] = IF k <= Len(r) THEN r[k] ELSE w[k - Len(r)]
  BY <1>5, ConcatProperties
<1>7. \A k \in 1..Len(a) : a[k] = IF k <= Len(r) THEN r[k] ELSE w[k - Len(r)]
  <2> SUFFICES ASSUME NEW k \in 1..Len(a) PROVE a[k] = IF k <= Len(r) THEN r[k] ELSE w[k - Len(r)]
    OBVIOUS
  <2>1. CASE k <= Len(r)
    BY <1>2, <2>1
  <2>2. CASE ~(k <= Len(r))
    <3>1. k - Len(r) \in 1..d /\ k = Len(r) + (k - Len(r))
      BY <1>2, <2>2
    <3> QED BY <1>5, <2>2, <3>1
  <2> QED BY <2>1, <2>2
<1>8. a = r \o w
  <2>1. PICK c \in Seq(Nat) : c = r \o w
    BY <1>6
  <2>2. Len(a) = Len(c) /\ \A k \in 1..Len(a) : a[k] = c[k]
    BY <1>5, <1>6, <1>7, <2>1
  <2> QED BY <2>1, <2>2, SeqEqual
<1> QED BY <1>1, <1>8

\* The invariants say what is promised of the console.
LEMMA ConInvSound == ConInv => ConsoleSound
<1> SUFFICES ASSUME LineInv, ReadInv PROVE ConsoleSound
  BY DEF ConInv
<1>0. /\ LineTypes /\ PollerLocks /\ LineExact /\ TokenExact /\ overrun = FALSE
      /\ ReadTypes /\ ReaderLocks /\ RingExact
  BY DEF LineInv, ReadInv
<1>1. OneToken
  <2> DEFINE S == {w \in Writer : wthread[w].at = "send"}
  <2>1. CASE NoSender
    <3>1. S = {}
      BY <2>1 DEF NoSender
    <3>2. Cardinality(S) = 0
      BY <3>1, FS_EmptySet
    <3>3. cs_wsem + 0 + Count(ls_wbusy) + Count(handler.start) = 1
      BY <1>0, <2>1 DEF TokenExact, Count
    <3> QED BY <3>2, <3>3 DEF OneToken
  <2>2. CASE ~NoSender
    <3>1. PICK w \in Writer : wthread[w].at = "send"
      BY <2>2 DEF NoSender
    <3>2. S = {w}
      BY <1>0, <3>1 DEF TokenExact
    <3>3. Cardinality(S) = 1
      BY <3>2, FS_Singleton
    <3>4. cs_wsem + 1 + Count(ls_wbusy) + Count(handler.start) = 1
      BY <1>0, <2>2 DEF TokenExact, Count
    <3> QED BY <3>3, <3>4 DEF OneToken
  <2> QED BY <2>1, <2>2
<1>2. WriteNotLost
  <2>1. CASE ls_lock = Free
    BY <1>0, <2>1 DEF LineExact, Busy, WriteNotLost
  <2>2. CASE ls_lock # Free
    <3>1. PICK p \in Poller : ls_lock = p /\ poller[p] \in {"until", "send", "sent"}
      BY <1>0, <2>2 DEF LineTypes, PollerLocks
    <3>2. CASE poller[p] = "until"
      BY <1>0, <3>2 DEF LineExact, Busy, WriteNotLost
    <3> QED BY <3>1, <3>2 DEF WriteNotLost
  <2> QED BY <2>1, <2>2
<1>3. InOrder
  <2> DEFINE M == {r \in Reader : rthread[r] = "move"}
             n == Used(cs_gotchars_head, cs_gotchars_tail)
  <2>1. PICK m \in {0, 1} : m = IF NoMover THEN 0 ELSE 1
    OBVIOUS
  <2>2. Cardinality(M) = m
    <3>1. CASE NoMover
      <4>1. M = {}
        BY <3>1 DEF NoMover
      <4> QED BY <2>1, <3>1, <4>1, FS_EmptySet
    <3>2. CASE ~NoMover
      <4>1. PICK r \in Reader : rthread[r] = "move"
        BY <3>2 DEF NoMover
      <4>2. M = {r}
        BY <1>0, <4>1 DEF ReaderLocks
      <4>3. Cardinality({r}) = 1
        BY FS_Singleton
      <4> QED BY <2>1, <3>2, <4>2, <4>3
    <3> QED BY <3>1, <3>2
  <2>3. Unread(m, cs_gotchars_head, cs_gotchars_tail, cs_gotchars, accepted, read, cs_rsem)
    BY <1>0, <2>1 DEF RingExact
  <2>4. /\ n >= m /\ cs_rsem = n - m /\ Len(accepted) = Len(read) + (n - m)
        /\ \A k \in 1..Len(read) : accepted[k] = read[k]
        /\ \A k \in Nat : k < n - m => accepted[Len(read) + k + 1] = cs_gotchars[Nth(cs_gotchars_tail, m + k)]
    BY <2>3 DEF Unread
  <2>5. n \in Nat /\ n < CONSOLE_INPUT_BUFFER_SIZE /\ CONSOLE_INPUT_BUFFER_SIZE \in Nat
    BY <1>0, RingIs DEF ReadTypes
  <2>6. \A j \in Nat : j < CONSOLE_INPUT_BUFFER_SIZE => Nth(cs_gotchars_tail, j) \in Slots
    BY <1>0, RingIs DEF ReadTypes
  <2> DEFINE waiting == [k \in 1..(n - m) |->
                          cs_gotchars[(cs_gotchars_tail + m + k - 1) % CONSOLE_INPUT_BUFFER_SIZE]]
  <2>7. cs_gotchars_tail \in Nat /\ accepted \in Seq(Nat) /\ read \in Seq(Nat) /\ n - m \in Nat
    BY <1>0, <2>4, <2>5, RingIs DEF ReadTypes
  <2>8. \A k \in 1..(n - m) : cs_gotchars[(cs_gotchars_tail + m + k - 1) % CONSOLE_INPUT_BUFFER_SIZE]
                               = accepted[Len(read) + k]
    <3> SUFFICES ASSUME NEW k \in 1..(n - m)
                 PROVE  cs_gotchars[(cs_gotchars_tail + m + k - 1) % CONSOLE_INPUT_BUFFER_SIZE]
                          = accepted[Len(read) + k]
      OBVIOUS
    <3>1. PICK j \in Nat : k = j + 1 /\ j < n - m
      <4>1. k - 1 \in Nat /\ k = (k - 1) + 1 /\ k - 1 < n - m
        BY <2>5, <2>7
      <4> QED BY <4>1
    <3>2. accepted[Len(read) + j + 1] = cs_gotchars[Nth(cs_gotchars_tail, m + j)]
      BY <2>4, <3>1
    <3>3. Len(read) + k = Len(read) + j + 1 /\ cs_gotchars_tail + m + k - 1 = cs_gotchars_tail + (m + j)
      BY <2>7, <3>1
    <3> QED BY <3>2, <3>3 DEF Nth
  <2>9. accepted = read \o waiting
    <3>1. waiting = [k \in 1..(n - m) |-> accepted[Len(read) + k]]
      BY <2>8
    <3>2. PICK d \in Nat : d = n - m
      BY <2>7
    <3>3. accepted = read \o [k \in 1..d |-> accepted[Len(read) + k]]
      BY <2>4, <2>7, <3>2, JoinIs
    <3> QED BY <3>1, <3>2, <3>3, Zenon
  <2>10. n = (cs_gotchars_head - cs_gotchars_tail) % CONSOLE_INPUT_BUFFER_SIZE
    BY DEF Used
  <2> HIDE DEF n
  <2> QED BY <2>2, <2>4, <2>9, <2>10 DEF InOrder
<1> QED BY <1>0, <1>1, <1>2, <1>3 DEF ConsoleSound

\* console.c on lser.c, for any number of threads that write, CPUs that poll
\* and threads that read, and a ring of any size: the line is never given a
\* character while it sends one, an interrupt is owed for every write under
\* way, whatever polls in between, and readers get what was typed, in order
\* and once.
THEOREM ConsoleSoundThm == ConSpec => []ConsoleSound
<1>1. ConInit => ConInv
  BY LineInit, ReadInit DEF ConInv
<1>2. ConInv /\ [ConNext]_conVars => ConInv'
  BY ConStepInv
<1>3. ConInv => ConsoleSound
  BY ConInvSound
<1> QED BY <1>1, <1>2, <1>3, PTL DEF ConSpec

-----------------------------------------------------------------------------
(* The bus *)

ClassName == {Classes[k] : k \in 1..Len(Classes)}
BootStep == {"cpus", "attach", "mark", "interrupt", "config", "child", "done", "running"}
GettimeRecord == [at : {"idle", "nsecs", "secs2", "got"}, start : Nat, secs1 : Nat, nsecs : Nat,
                  secs2 : Nat, secs : Nat]

BusTypes ==
    /\ card[LB_CONTROLLER_SLOT] = "none"
    /\ cpumask \in SUBSET HwCpus /\ self \in cpumask
    /\ ls_slotsinuse \in SUBSET Slot
    /\ ls_irqfuncs \in [Slot -> Slot \union {NONE}]
    /\ boot \in [at : BootStep, class : 1..7, slot : Slot \union {NONE}, kids : Seq(Child)]
    /\ nextunit \in [ClassName \union Child -> Nat]
    /\ unit \in [Slot -> Nat \union {NONE}]
    /\ the \in [Child -> Slot \union {NONE}]
    /\ dispatch \in [on : BOOLEAN, slot : (0..LB_NSLOTS) \union {NONE}, irqs : SUBSET Slot, duds : Nat]

\* The slot the boot thread has found is of the class it looks for: free until
\* lamebus_mark, then in use without a handler until the driver installs one,
\* and without a unit until it is configured.
FoundSlot ==
    /\ boot.at \in {"cpus", "attach", "mark", "interrupt", "config", "child"} => boot.class \in 1..6
    /\ boot.at \in {"mark", "interrupt", "config", "child"} =>
          boot.slot \in Slot /\ card[boot.slot] = class
    /\ boot.at = "mark" => boot.slot \notin ls_slotsinuse
    /\ boot.at \in {"interrupt", "config"} =>
          /\ boot.slot \in ls_slotsinuse /\ unit[boot.slot] = NONE
          /\ \A s \in ls_slotsinuse : card[s] = class => s <= boot.slot
    /\ boot.at = "interrupt" => ls_irqfuncs[boot.slot] = NONE
    /\ boot.at = "config" /\ HasIrq(class) => ls_irqfuncs[boot.slot] = boot.slot

\* Slots are taken in their order, and a free slot has neither handler nor
\* unit.
SlotsInOrder ==
    /\ \A c \in ClassName : \A s \in ls_slotsinuse : \A t \in Slot \ ls_slotsinuse :
         card[s] = c /\ card[t] = c => s < t
    /\ \A s \in Slot \ ls_slotsinuse : ls_irqfuncs[s] = NONE /\ unit[s] = NONE
    /\ boot.at = "mark" => \A t \in Slot \ ls_slotsinuse : card[t] = class => boot.slot <= t

\* Only a slot with a driver may assert its line.
LinesDriven ==
    /\ asserted \subseteq enabled /\ dispatch.irqs \subseteq enabled
    /\ enabled \subseteq Slot
    /\ \A s \in enabled : HasDriver(s)

\* The beep and the real-time clock are counted as soon as they are taken.
ChildrenCounted == \A d \in {"beep", "rtclock"} : the[d] # NONE => nextunit[d] = 1

\* What find_cpus and start_cpus have done.
CpusInOrder ==
    /\ boot.at # "cpus" => allcpus = <<self>> \o NewCpus
    /\ boot.at = "running" =>
         cram = [h \in HwCpus |-> IF \E i \in DOMAIN NewCpus : NewCpus[i] = h
                                  THEN CHOOSE i \in DOMAIN NewCpus : NewCpus[i] = h ELSE NONE]

\* The registers were read at moments since the start, in order, all of
\* them less than 5 ms ago.
ReadingsTimed ==
    /\ clock \in Nat /\ gettime \in GettimeRecord
    /\ gettime.at # "idle" => /\ gettime.start <= clock /\ clock - gettime.start < Small
                              /\ gettime.secs1 = gettime.start \div Second
    /\ gettime.at = "secs2" => \E m \in gettime.start..clock : gettime.nsecs = m % Second
    /\ gettime.at = "got" => \E m \in gettime.start..clock : \E n \in m..clock :
                               gettime.nsecs = m % Second /\ gettime.secs2 = n \div Second

SlotInv ==
    /\ BusTypes /\ FoundSlot /\ SlotsInOrder /\ UnitsExact /\ LinesDriven /\ ChildrenCounted
    /\ PanicsExplained

BusInv == SlotInv /\ CpusInOrder /\ ReadingsTimed

\* A set of natural numbers has a least one.
LEMMA LowestOne ==
  ASSUME NEW S \in SUBSET Nat, S # {}
  PROVE  \E i \in S : \A j \in S : i <= j
  <1> DEFINE R == OpToRel(<, Nat)
  <1>1. IsWellFoundedOn(R, Nat)
    BY NatLessThanWellFounded
  <1>2. \A i, j \in Nat : <<j, i>> \notin R => i <= j
    BY DEF OpToRel
  <1> HIDE DEF R
  <1>3. PICK i \in S : \A j \in S : ~ (<<j, i>> \in R)
    BY <1>1, WFMin
  <1> QED
    BY <1>2, <1>3

\* q lists S from the lowest to the highest.
Lists(q, S) == q \in [1..Cardinality(S) -> S] /\ \A i, j \in DOMAIN q : i < j => q[i] < q[j]

\* A finite set of numbers can be listed in their order: were there sets that
\* cannot, take one with fewest members and its lowest, and list the rest first.
LEMMA CanBeListed ==
  ASSUME NEW S \in SUBSET Nat, IsFiniteSet(S)
  PROVE  \E q : Lists(q, S)
  <1> DEFINE Bad == {n \in Nat : \E T \in SUBSET Nat : IsFiniteSet(T) /\ Cardinality(T) = n
                                                       /\ ~ \E q : Lists(q, T)}
  <1>1. SUFFICES ASSUME Bad # {} PROVE FALSE
    BY FS_CardinalityType
  <1>2. PICK n \in Bad : \A m \in Bad : n <= m
    BY <1>1, LowestOne
  <1>3. PICK T \in SUBSET Nat : IsFiniteSet(T) /\ Cardinality(T) = n /\ ~ \E q : Lists(q, T)
    OBVIOUS
  <1>4. T # {}
    <2> SUFFICES ASSUME T = {} PROVE FALSE
      OBVIOUS
    <2>1. Cardinality(T) = 0
      BY FS_EmptySet
    <2> DEFINE q == [i \in 1..0 |-> 0]
    <2>2. Lists(q, T)
      BY <2>1 DEF Lists
    <2> QED
      BY <1>3, <2>2
  <1>5. PICK low \in T : \A j \in T : low <= j
    BY <1>3, <1>4, LowestOne
  <1> DEFINE U == T \ {low}
  <1>6. U \in SUBSET Nat /\ IsFiniteSet(U) /\ Cardinality(U) = n - 1
    BY <1>3, <1>5, FS_RemoveElement
  <1>7. n - 1 \in Nat /\ n - 1 \notin Bad
    BY <1>2, <1>6, FS_CardinalityType
  <1>8. PICK r : Lists(r, U)
    BY <1>6, <1>7
  <1> DEFINE q == [i \in 1..n |-> IF i = 1 THEN low ELSE r[i - 1]]
  <1>9. r \in [1..(n - 1) -> U] /\ \A i, j \in 1..(n - 1) : i < j => r[i] < r[j]
    BY <1>6, <1>8 DEF Lists
  <1>10. \A i \in 1..n : i # 1 => i - 1 \in 1..(n - 1)
    BY <1>7
  <1>11. q \in [1..n -> T]
    BY <1>9, <1>10
  <1>12. ASSUME NEW i \in 1..n, NEW j \in 1..n, i < j PROVE q[i] < q[j]
    <2>1. j # 1 /\ q[j] = r[j - 1] /\ r[j - 1] \in U
      BY <1>9, <1>10, <1>12
    <2>2. CASE i = 1
      <3>1. q[i] = low
        BY <2>2
      <3>2. low \in Nat /\ r[j - 1] \in Nat /\ low <= r[j - 1] /\ r[j - 1] # low
        BY <2>1, <1>5, <1>3
      <3> QED
        BY <3>1, <3>2, <2>1
    <2>3. CASE i # 1
      BY <2>1, <2>3, <1>9, <1>10, <1>12
    <2> QED
      BY <2>2, <2>3
  <1>13. Lists(q, T)
    BY <1>3, <1>11, <1>12 DEF Lists
  <1> QED
    BY <1>3, <1>13

\* Ascending lists every member.
LEMMA AscendingIs ==
  ASSUME NEW S \in SUBSET Nat, IsFiniteSet(S)
  PROVE  /\ Cardinality(S) \in Nat
         /\ Ascending(S) \in [1..Cardinality(S) -> S]
         /\ \A h \in S : \E i \in 1..Cardinality(S) : Ascending(S)[i] = h
  <1> DEFINE n == Cardinality(S)
  <1>1. n \in Nat
    BY FS_CardinalityType
  <1>2. \E q \in [1..n -> S] : \A i, j \in DOMAIN q : i < j => q[i] < q[j]
    BY CanBeListed DEF Lists
  <1>3. /\ Ascending(S) \in [1..n -> S]
        /\ \A i, j \in DOMAIN Ascending(S) : i < j => Ascending(S)[i] < Ascending(S)[j]
    BY <1>2 DEF Ascending
  <1>4. \A i, j \in 1..n : Ascending(S)[i] = Ascending(S)[j] => i = j
    <2> SUFFICES ASSUME NEW i \in 1..n, NEW j \in 1..n, i # j PROVE Ascending(S)[i] # Ascending(S)[j]
      OBVIOUS
    <2>1. i < j \/ j < i
      BY <1>1
    <2>2. Ascending(S)[i] \in Nat /\ Ascending(S)[j] \in Nat
      BY <1>3
    <2> QED
      BY <1>3, <2>1, <2>2
  <1>5. Ascending(S) \in Injection(1..n, S)
    BY <1>3, <1>4 DEF Injection, IsInjective
  <1>6. Cardinality(1..n) = n
    BY <1>1, FS_Interval
  <1>7. Ascending(S) \in Surjection(1..n, S)
    BY <1>5, <1>6, FS_Injection
  <1> QED
    BY <1>1, <1>3, <1>7 DEF Surjection

\* The names of the classes.
LEMMA ClassesAre ==
  /\ ClassName = {"emu", "ltrace", "ltimer", "lrandom", "lhd", "lser"}
  /\ Len(Classes) = 6 /\ \A k \in 1..6 : Classes[k] \in ClassName
  /\ \A c \in ClassName : c # "none" /\ c \notin Child
  /\ \A c : Children(c) \in Seq(Child)
  <1>1. Len(Classes) = 6
    BY DEF Classes
  <1>2. ClassName = {Classes[k] : k \in 1..6}
    BY <1>1 DEF ClassName
  <1>3. ClassName = {"emu", "ltrace", "ltimer", "lrandom", "lhd", "lser"}
    BY <1>2 DEF Classes
  <1>4. \A c : Children(c) \in Seq(Child)
    <2>1. /\ <<"beep", "rtclock">> \in Seq(Child) /\ <<"random">> \in Seq(Child)
          /\ <<"con">> \in Seq(Child) /\ <<>> \in Seq(Child)
      BY DEF Child
    <2>2. \A c : Children(c) \in {<<"beep", "rtclock">>, <<"random">>, <<"con">>, <<>>}
      BY DEF Children
    <2> QED
      BY <2>1, <2>2
  <1> QED
    BY <1>1, <1>2, <1>3, <1>4 DEF Child

\* Quotient and remainder.
LEMMA DivisionIs ==
  ASSUME NEW m \in Nat, NEW S \in Nat \ {0}
  PROVE  m \div S \in Nat /\ m % S \in 0..(S - 1) /\ m = (m \div S) * S + (m % S)
  OBVIOUS

LEMMA QuotientIs ==
  ASSUME NEW n \in Nat, NEW S \in Nat \ {0}, NEW q \in Nat, NEW r \in 0..(S - 1), n = q * S + r
  PROVE  n \div S = q
  OBVIOUS

\* The seconds and the nanoseconds of a moment.
LEMMA MomentIs ==
  ASSUME NEW m \in Nat, NEW n \in Nat, m <= n, NEW S \in Nat \ {0}, (m % S) + (n - m) < S
  PROVE  (n \div S) * S + (m % S) = m
  <1>1. m \div S \in Nat /\ m % S \in 0..(S - 1) /\ m = (m \div S) * S + (m % S)
    BY DivisionIs
  <1>2. n \div S \in Nat /\ n % S \in 0..(S - 1) /\ n = (n \div S) * S + (n % S)
    BY DivisionIs
  <1>3. m \div S = n \div S
    <2> DEFINE a == (m \div S) * S  x == m % S
    <2>2. a \in Nat /\ x \in 0..(S - 1) /\ m = a + x /\ x + (n - m) < S
      BY <1>1
    <2> HIDE DEF a, x
    <2>3. x + (n - m) \in 0..(S - 1) /\ n = a + (x + (n - m))
      BY <2>2
    <2>1. (m % S) + (n - m) \in 0..(S - 1) /\ n = (m \div S) * S + ((m % S) + (n - m))
      BY <2>3 DEF a, x
    <2> QED
      BY <1>1, <2>1, QuotientIs
  <1> QED
    BY <1>1, <1>2, <1>3

LEMMA SameSecond ==
  ASSUME NEW k \in Nat, NEW m \in Nat, k <= m, NEW S \in Nat \ {0}, m - k <= m % S
  PROVE  (k \div S) * S + (m % S) = m
  <1>1. m \div S \in Nat /\ m % S \in 0..(S - 1) /\ m = (m \div S) * S + (m % S)
    BY DivisionIs
  <1>2. (m % S) - (m - k) \in 0..(S - 1) /\ k = (m \div S) * S + ((m % S) - (m - k))
    <2> DEFINE a == (m \div S) * S  x == m % S
    <2>1. a \in Nat /\ x \in 0..(S - 1) /\ m = a + x /\ m - k <= x
      BY <1>1
    <2> HIDE DEF a, x
    <2>2. x - (m - k) \in 0..(S - 1) /\ k = a + (x - (m - k))
      BY <2>1
    <2> QED
      BY <2>2 DEF a, x
  <1>3. k \div S = m \div S
    BY <1>1, <1>2, QuotientIs
  <1> QED
    BY <1>1, <1>3

-----------------------------------------------------------------------------
(* Finding CPUs and reading the clock *)

\* A CPU that starts finds its structure.
LEMMA NumbersFromOrder ==
  ASSUME BusTypes, CpusInOrder
  PROVE  CpuNumbersAgree
  <1> DEFINE S == cpumask \ {self}  n == Cardinality(S)  q == NewCpus
  <1> SUFFICES ASSUME boot.at = "running"
               PROVE  /\ \A h \in S : cram[h] + 1 \in DOMAIN allcpus /\ allcpus[cram[h] + 1] = h
                      /\ Len(allcpus) = Cardinality(cpumask) /\ allcpus[1] = self
    BY DEF CpuNumbersAgree
  <1>1. IsFiniteSet(cpumask) /\ S \in SUBSET Nat /\ S \in SUBSET HwCpus
    BY BusAssumption, FS_Subset DEF BusTypes
  <1>2. IsFiniteSet(S) /\ n = Cardinality(cpumask) - 1
    BY <1>1, FS_RemoveElement DEF BusTypes
  <1>3. n \in Nat /\ q \in [1..n -> S] /\ \A h \in S : \E i \in 1..n : q[i] = h
    BY <1>1, <1>2, AscendingIs DEF NewCpus
  <1> HIDE DEF n, q
  <1>4. q \in Seq(S) /\ Len(q) = n
    BY <1>3
  <1>5. allcpus = <<self>> \o q
    BY DEF CpusInOrder, q
  <1>6. Len(allcpus) = n + 1 /\ DOMAIN allcpus = 1..(n + 1) /\ allcpus[1] = self
    BY <1>3, <1>4, <1>5
  <1>7. \A i \in 1..n : allcpus[i + 1] = q[i]
    BY <1>3, <1>4, <1>5
  <1>8. ASSUME NEW h \in S
        PROVE  cram[h] + 1 \in DOMAIN allcpus /\ allcpus[cram[h] + 1] = h
    <2>1. h \in HwCpus /\ DOMAIN q = 1..n /\ \E i \in DOMAIN q : q[i] = h
      BY <1>1, <1>3
    <2>3. cram[h] = CHOOSE i \in DOMAIN q : q[i] = h
      BY <2>1 DEF CpusInOrder, q
    <2>2. cram[h] \in 1..n /\ q[cram[h]] = h
      BY <2>1, <2>3
    <2> QED
      BY <1>3, <1>6, <1>7, <2>2
  <1>9. Len(allcpus) = Cardinality(cpumask)
    BY <1>2, <1>6, <1>1, FS_CardinalityType DEF n
  <1> QED
    BY <1>6, <1>8, <1>9

\* The reading of the seconds that Seconds chooses belongs to the moment the
\* nanoseconds were read: with fewer than Small of them the second has not
\* ended since, with more it had begun at the first reading.
LEMMA TimeFromReadings ==
  ASSUME ReadingsTimed
  PROVE  TimeTrue
  <1> SUFFICES ASSUME gettime.at = "got"
               PROVE  Seconds(gettime) * Second + gettime.nsecs \in gettime.start..clock
    BY DEF TimeTrue
  <1>1. PICK m \in gettime.start..clock : \E n \in m..clock :
              gettime.nsecs = m % Second /\ gettime.secs2 = n \div Second
    BY DEF ReadingsTimed
  <1>7. PICK n \in m..clock : gettime.nsecs = m % Second /\ gettime.secs2 = n \div Second
    BY <1>1
  <1> DEFINE k == gettime.start
  <1>2. /\ k \in Nat /\ m \in Nat /\ n \in Nat /\ clock \in Nat /\ k <= m /\ m <= n /\ n <= clock
        /\ clock - k < Small /\ gettime.secs1 = k \div Second
    BY <1>1 DEF ReadingsTimed, GettimeRecord
  <1>3. Second \in Nat \ {0} /\ Small \in Nat /\ 2 * Small <= Second
    BY BusAssumption
  <1>4. k % Second \in 0..(Second - 1) /\ m % Second \in 0..(Second - 1)
    BY <1>2, <1>3, DivisionIs
  <1>5. CASE m % Second < Small
    <2>1. (m % Second) + (n - m) < Second
      BY <1>2, <1>3, <1>4, <1>5
    <2>2. (n \div Second) * Second + (m % Second) = m
      BY <1>2, <1>3, <2>1, MomentIs
    <2> QED
      BY <1>7, <1>2, <1>5, <2>2 DEF Seconds
  <1>6. CASE ~ (m % Second < Small)
    <2>2. m - k <= m % Second
      <3> DEFINE x == m % Second
      <3>1. x \in Nat /\ x >= Small
        BY <1>3, <1>4, <1>6
      <3> HIDE DEF x
      <3>2. m - k <= x
        BY <3>1, <1>2, <1>3
      <3> QED
        BY <3>2 DEF x
    <2>1. (k \div Second) * Second + (m % Second) = m
      BY <1>2, <1>3, <2>2, SameSecond
    <2> QED
      BY <1>7, <1>2, <1>6, <2>1 DEF Seconds
  <1> QED
    BY <1>5, <1>6

\* Actions of the bus other than those of the CPUs leave their numbers alone,
\* and actions other than those of the clock the clock.
BusMove == Attaches \/ lamebus_mark \/ lamebus_attach_interrupt \/ Config \/ TryChild
LineMove == (\E s \in Slot : Raise(s) \/ MaskInterrupt(s)) \/ mainbus_interrupt \/ ReadIrqs \/ ScanSlot
            \/ DispatchEnds

LEMMA BusNextIs ==
  BusNext <=> lamebus_find_cpus \/ lamebus_start_cpus \/ BusMove \/ LineMove \/ Tick \/ ltimer_gettime
  BY DEF BusNext, BusMove, LineMove

LEMMA BusMoveIs ==
  ASSUME BusTypes, BusMove
  PROVE  /\ boot.at \notin {"cpus", "running"} /\ boot'.at # "running"
         /\ UNCHANGED <<hardware, cpuVars, clockVars>>
  <1>6. NextClass => boot'.at # "running"
    BY DEF NextClass
  <1>1. CASE Attaches
    BY <1>1, <1>6 DEF Attaches, Booting, BusTypes
  <1>2. CASE lamebus_mark
    BY <1>2 DEF lamebus_mark, Booting, BusTypes
  <1>3. CASE lamebus_attach_interrupt
    BY <1>3 DEF lamebus_attach_interrupt, Booting, BusTypes
  <1>4. CASE Config
    BY <1>4, <1>6 DEF Config, Booting, BusTypes
  <1>5. CASE TryChild
    BY <1>5 DEF TryChild, Booting, BusTypes
  <1> QED
    BY <1>1, <1>2, <1>3, <1>4, <1>5 DEF BusMove

slotVars == <<hardware, ls_slotsinuse, ls_irqfuncs, boot, nextunit, unit, the, enabled>>

LEMMA LineMoveIs ==
  ASSUME LineMove
  PROVE  UNCHANGED <<slotVars, cpuVars, clockVars>>
  BY DEF LineMove, Raise, MaskInterrupt, mainbus_interrupt, ReadIrqs, ScanSlot, DispatchEnds, slotVars

LEMMA CpusKept ==
  ASSUME BusTypes, CpusInOrder, [BusNext]_busVars
  PROVE  CpusInOrder'
  <1>1. ASSUME UNCHANGED <<self, cpumask, cpuVars>>, boot'.at # "cpus" => boot.at # "cpus",
               boot'.at = "running" => boot.at = "running"
        PROVE  CpusInOrder'
    <2>1. NewCpus' = NewCpus
      BY <1>1 DEF NewCpus
    <2> QED
      BY <1>1, <2>1 DEF CpusInOrder, cpuVars
  <1>2. CASE lamebus_find_cpus
    BY <1>2 DEF lamebus_find_cpus, CpusInOrder, NewCpus, BusTypes, hardware
  <1>3. CASE lamebus_start_cpus
    <2>1. NewCpus' = NewCpus
      BY <1>3 DEF lamebus_start_cpus, hardware, NewCpus
    <2>2. cram' = [h \in HwCpus |-> IF \E i \in DOMAIN NewCpus : NewCpus[i] = h
                                    THEN CHOOSE i \in DOMAIN NewCpus : NewCpus[i] = h ELSE NONE]
      BY <1>3 DEF lamebus_start_cpus, NewCpus
    <2>3. UNCHANGED <<self, allcpus>> /\ boot.at # "cpus"
      BY <1>3 DEF lamebus_start_cpus, hardware
    <2> QED
      BY <2>1, <2>2, <2>3 DEF CpusInOrder
  <1>4. CASE BusMove
    BY <1>1, <1>4, BusMoveIs DEF hardware
  <1>5. CASE LineMove
    BY <1>1, <1>5, LineMoveIs DEF hardware, slotVars
  <1>6. CASE Tick \/ ltimer_gettime
    BY <1>1, <1>6 DEF Tick, ltimer_gettime, hardware
  <1>7. CASE UNCHANGED busVars
    BY <1>1, <1>7 DEF busVars, cpuVars
  <1> QED
    BY <1>2, <1>3, <1>4, <1>5, <1>6, <1>7, BusNextIs

LEMMA ReadingsKept ==
  ASSUME BusTypes, ReadingsTimed, [BusNext]_busVars
  PROVE  ReadingsTimed'
  <1>1. ASSUME UNCHANGED clockVars PROVE ReadingsTimed'
    BY <1>1 DEF ReadingsTimed, clockVars
  <1>2. CASE lamebus_find_cpus \/ lamebus_start_cpus
    BY <1>1, <1>2 DEF lamebus_find_cpus, lamebus_start_cpus
  <1>3. CASE BusMove
    BY <1>1, <1>3, BusMoveIs
  <1>4. CASE LineMove
    BY <1>1, <1>4, LineMoveIs
  <1>5. CASE UNCHANGED busVars
    BY <1>1, <1>5 DEF busVars, clockVars
  <1>6. CASE Tick
    <2>1. clock \in Nat /\ clock' = clock + 1 /\ gettime' = gettime
          /\ (gettime.at # "idle" => clock' - gettime.start < Small)
      <3>1. clock' = clock + 1 /\ gettime' = gettime
            /\ (gettime.at # "idle" => clock + 1 - gettime.start < Small)
        BY <1>6 DEF Tick
      <3>2. clock \in Nat /\ gettime.start \in Nat /\ Small \in Nat
        BY BusAssumption DEF ReadingsTimed, GettimeRecord
      <3> QED
        BY <3>1, <3>2
    <2> QED
      BY <2>1 DEF ReadingsTimed, GettimeRecord
  <1>7. CASE ltimer_gettime
    <2>1. clock' = clock /\ clock \in Nat /\ gettime \in GettimeRecord
      BY <1>7 DEF ltimer_gettime, ReadingsTimed
    <2>2. Second \in Nat \ {0} /\ Small \in Nat \ {0} /\ SEC \in Nat /\ NSEC \in Nat
      <3>1. Second \in Nat \ {0} /\ Small \in Nat \ {0}
        BY BusAssumption
      <3> QED
        BY <2>1, <3>1, DivisionIs DEF SEC, NSEC
    <2>3. CASE gettime.at = "idle"
      <3>1. gettime' = [NotReading EXCEPT !.at = "nsecs", !.start = clock, !.secs1 = SEC]
        BY <1>7, <2>3 DEF ltimer_gettime
      <3>2. gettime' \in GettimeRecord /\ gettime'.at = "nsecs" /\ gettime'.start = clock /\ gettime'.secs1 = SEC
        BY <2>1, <2>2, <3>1 DEF GettimeRecord, NotReading
      <3> QED
        BY <2>1, <2>2, <3>2 DEF ReadingsTimed, SEC
    <2>4. CASE gettime.at = "nsecs"
      <3>1. gettime' = [gettime EXCEPT !.at = "secs2", !.nsecs = NSEC]
        BY <1>7, <2>4 DEF ltimer_gettime
      <3>2. /\ gettime' \in GettimeRecord /\ gettime'.at = "secs2" /\ gettime'.start = gettime.start
            /\ gettime'.secs1 = gettime.secs1 /\ gettime'.nsecs = NSEC /\ gettime.start \in Nat
        BY <2>1, <2>2, <3>1 DEF GettimeRecord
      <3>3. clock \in gettime.start..clock /\ gettime'.nsecs = clock % Second
        BY <2>1, <2>4, <3>2 DEF ReadingsTimed, NSEC
      <3> QED
        BY <2>1, <2>2, <2>4, <3>2, <3>3 DEF ReadingsTimed
    <2>5. CASE gettime.at = "secs2"
      <3>1. gettime' = [gettime EXCEPT !.at = "got", !.secs2 = SEC]
        BY <1>7, <2>5 DEF ltimer_gettime
      <3>2. /\ gettime' \in GettimeRecord /\ gettime'.at = "got" /\ gettime'.start = gettime.start
            /\ gettime'.secs1 = gettime.secs1 /\ gettime'.nsecs = gettime.nsecs
            /\ gettime'.secs2 = clock \div Second /\ gettime.start \in Nat
        BY <2>1, <2>2, <3>1 DEF GettimeRecord, SEC
      <3>3. PICK m \in gettime.start..clock : gettime.nsecs = m % Second
        BY <2>5 DEF ReadingsTimed
      <3>4. clock \in m..clock
        BY <2>1, <3>2, <3>3
      <3> QED
        BY <2>1, <2>2, <2>5, <3>2, <3>3, <3>4 DEF ReadingsTimed
    <2>6. CASE gettime.at = "got"
      <3>1. gettime' = NotReading
        BY <1>7, <2>6 DEF ltimer_gettime
      <3> QED
        BY <2>1, <3>1 DEF ReadingsTimed, NotReading, GettimeRecord
    <2> QED
      BY <2>1, <2>3, <2>4, <2>5, <2>6 DEF GettimeRecord
  <1> QED
    BY <1>2, <1>3, <1>4, <1>5, <1>6, <1>7, BusNextIs

-----------------------------------------------------------------------------
(* Looking for devices *)

LEMMA BusInitInv == BusInit => BusInv
  <1> SUFFICES ASSUME BusInit PROVE BusInv
    OBVIOUS
  <1>1. LB_NSLOTS \in Nat \ {0} /\ LB_CONTROLLER_SLOT \in Slot /\ NONE \notin Slot /\ NONE \notin Nat
    BY BusAssumption DEF LB_CONTROLLER_SLOT, Slot, NONE
  <1>2. BusTypes
    <2>1. boot \in [at : BootStep, class : 1..7, slot : Slot \union {NONE}, kids : Seq(Child)]
      BY DEF BusInit, BootStep
    <2>2. nextunit \in [ClassName \union Child -> Nat] /\ unit \in [Slot -> Nat \union {NONE}]
          /\ the \in [Child -> Slot \union {NONE}] /\ ls_irqfuncs \in [Slot -> Slot \union {NONE}]
      BY DEF BusInit, ClassName
    <2>3. dispatch \in [on : BOOLEAN, slot : (0..LB_NSLOTS) \union {NONE}, irqs : SUBSET Slot, duds : Nat]
      BY <1>1 DEF BusInit, NotDispatching
    <2> QED
      BY <1>1, <2>1, <2>2, <2>3 DEF BusInit, BusTypes
  <1>3. boot.at = "cpus" /\ boot.class = 1
    BY DEF BusInit
  <1>4. FoundSlot
    BY <1>3 DEF FoundSlot
  <1>5. SlotsInOrder
    BY <1>1, <1>3, ClassesAre DEF BusInit, SlotsInOrder
  <1>6. UnitsExact
    <2>1. \A s \in Slot : unit[s] = NONE
      BY DEF BusInit
    <2>2. \A c \in ClassName : nextunit[c] = 0
      BY DEF BusInit, ClassName
    <2>3. \A c : Units(c) = {}
      BY <2>1 DEF Units
    <2>4. \A c \in ClassName : {unit[s] : s \in Units(c)} = 0..(nextunit[c] - 1)
      BY <2>2, <2>3
    <2> QED
      BY <2>1, <2>3, <2>4 DEF UnitsExact, ClassName
  <1>7. LinesDriven /\ ChildrenCounted /\ PanicsExplained
    BY DEF BusInit, LinesDriven, ChildrenCounted, PanicsExplained, NotDispatching, Child
  <1>8. CpusInOrder
    BY <1>3 DEF CpusInOrder
  <1>9. ReadingsTimed
    BY DEF BusInit, ReadingsTimed, NotReading, GettimeRecord
  <1> QED
    BY <1>2, <1>4, <1>5, <1>6, <1>7, <1>8, <1>9 DEF BusInv, SlotInv

\* A step that leaves the hardware, the handlers and the units alone.
LEMMA UnitsAlone ==
  ASSUME UnitsExact, UNCHANGED <<card, unit>>, \A c \in ClassName : nextunit'[c] = nextunit[c],
         ls_slotsinuse \subseteq ls_slotsinuse',
         \A s \in Slot : ls_irqfuncs[s] = s => ls_irqfuncs'[s] = s
  PROVE  UnitsExact'
  <1>1. \A c : Units(c)' = Units(c)
    BY DEF Units
  <1> QED
    BY <1>1 DEF UnitsExact, ClassName

LEMMA LinesKept ==
  ASSUME SlotInv, UNCHANGED slotVars,
         asserted' \subseteq enabled, dispatch'.irqs \subseteq enabled,
         dispatch' \in [on : BOOLEAN, slot : (0..LB_NSLOTS) \union {NONE}, irqs : SUBSET Slot, duds : Nat],
         panicked' \in {panicked, "duds"}, driverless' = driverless
  PROVE  SlotInv'
  <1> USE DEF slotVars, hardware
  <1>1. BusTypes'
    BY DEF SlotInv, BusTypes
  <1>2. FoundSlot'
    BY DEF SlotInv, FoundSlot, class
  <1>3. SlotsInOrder'
    BY DEF SlotInv, SlotsInOrder, class
  <1>4. UnitsExact'
    BY UnitsAlone DEF SlotInv
  <1>5. LinesDriven'
    BY DEF SlotInv, LinesDriven, HasDriver
  <1>6. ChildrenCounted' /\ PanicsExplained'
    BY DEF SlotInv, ChildrenCounted, PanicsExplained
  <1> QED
    BY <1>1, <1>2, <1>3, <1>4, <1>5, <1>6 DEF SlotInv

LEMMA LineMoveKept ==
  ASSUME SlotInv, LineMove
  PROVE  SlotInv'
  <1> DEFINE D == [on : BOOLEAN, slot : (0..LB_NSLOTS) \union {NONE}, irqs : SUBSET Slot, duds : Nat]
  <1>1. UNCHANGED slotVars
    BY LineMoveIs
  <1>2. /\ asserted \subseteq enabled /\ dispatch.irqs \subseteq enabled /\ dispatch \in D
        /\ enabled \subseteq Slot /\ \A s \in enabled : HasDriver(s)
    BY DEF SlotInv, LinesDriven, BusTypes
  <1>3. LB_NSLOTS \in Nat \ {0} /\ NONE \notin 0..LB_NSLOTS
    BY BusAssumption DEF NONE
  <1>4. ASSUME NEW s \in Slot, Raise(s) PROVE SlotInv'
    BY <1>1, <1>2, <1>4, LinesKept DEF Raise
  <1>5. ASSUME NEW s \in Slot, MaskInterrupt(s) PROVE SlotInv'
    BY <1>1, <1>2, <1>5, LinesKept DEF MaskInterrupt
  <1>6. CASE mainbus_interrupt
    <2>1. dispatch' \in D /\ dispatch'.irqs = {} /\ UNCHANGED <<asserted, panicked, driverless>>
      BY <1>6, <1>3 DEF mainbus_interrupt, NotDispatching
    <2> QED
      BY <1>1, <1>2, <2>1, LinesKept
  <1>7. CASE ReadIrqs
    <2>1. dispatch' \in D /\ dispatch'.irqs = asserted /\ UNCHANGED <<asserted, panicked, driverless>>
      <3>1. asserted \in SUBSET Slot /\ 0 \in (0..LB_NSLOTS) \union {NONE}
            /\ (IF asserted = {} THEN 1 ELSE 0) \in Nat
        BY <1>2, <1>3
      <3>2. /\ dispatch' = [dispatch EXCEPT !.slot = 0, !.irqs = asserted,
                                            !.duds = IF asserted = {} THEN 1 ELSE 0]
            /\ UNCHANGED <<asserted, panicked, driverless>>
        BY <1>7 DEF ReadIrqs
      <3> QED
        BY <1>2, <3>1, <3>2
    <2> QED
      BY <1>1, <1>2, <2>1, LinesKept
  <1>8. CASE ScanSlot
    <2> DEFINE s == dispatch.slot
    <2>1. s \in Slot /\ s + 1 \in 0..LB_NSLOTS /\ panicked' = panicked
      BY <1>3, <1>8 DEF ScanSlot, Slot
    <2>2. s \in dispatch.irqs => HasDriver(s)
      BY <1>2
    <2>3. CASE s \notin dispatch.irqs
      <3>1. dispatch' = [dispatch EXCEPT !.slot = s + 1] /\ UNCHANGED <<asserted, driverless>>
        BY <1>8, <2>3 DEF ScanSlot
      <3>2. dispatch' \in D /\ dispatch'.irqs = dispatch.irqs
        BY <1>2, <2>1, <3>1
      <3> QED
        BY <1>1, <1>2, <2>1, <3>1, <3>2, LinesKept
    <2>4. CASE s \in dispatch.irqs
      <3>1. /\ dispatch' = [dispatch EXCEPT !.slot = s + 1, !.irqs = asserted']
            /\ asserted' = asserted \ {s} /\ driverless' = driverless
        BY <1>8, <2>2, <2>4 DEF ScanSlot
      <3>2. dispatch' \in D /\ dispatch'.irqs = asserted'
        BY <1>2, <2>1, <3>1
      <3> QED
        BY <1>1, <1>2, <2>1, <3>1, <3>2, LinesKept
    <2> QED
      BY <2>3, <2>4
  <1>9. CASE DispatchEnds
    <2>1. dispatch' \in D /\ dispatch'.irqs = {} /\ UNCHANGED <<asserted, driverless>>
          /\ panicked' \in {panicked, "duds"}
      BY <1>9, <1>3 DEF DispatchEnds, NotDispatching
    <2> QED
      BY <1>1, <1>2, <2>1, LinesKept
  <1> QED
    BY <1>4, <1>5, <1>6, <1>7, <1>8, <1>9 DEF LineMove

\* The class and the slots when the boot thread is looking for cards.
LEMMA LookingIs ==
  ASSUME SlotInv, boot.at \in {"attach", "mark", "interrupt", "config", "child"}
  PROVE  boot.class \in 1..6 /\ class \in ClassName /\ class \in DOMAIN nextunit
         /\ LB_NSLOTS \in Nat \ {0} /\ NONE \notin Slot /\ Slot \subseteq Nat
  <1>1. boot.class \in 1..6
    BY DEF SlotInv, FoundSlot
  <1>2. class \in ClassName
    BY <1>1, ClassesAre DEF class
  <1> QED
    BY <1>1, <1>2, BusAssumption DEF SlotInv, BusTypes, NONE, Slot

\* The search moves on to the next class.
LEMMA NextClassIs ==
  ASSUME SlotInv, boot.class \in 1..6, NextClass
  PROVE  /\ boot' \in [at : BootStep, class : 1..7, slot : Slot \union {NONE}, kids : Seq(Child)]
         /\ boot'.at \in {"done", "attach"}
         /\ boot'.at = "attach" => boot'.class \in 1..6
  <1>1. Len(Classes) = 6
    BY ClassesAre
  <1>2. boot' = [at |-> IF boot.class = 6 THEN "done" ELSE "attach", class |-> boot.class + 1,
                 slot |-> NONE, kids |-> <<>>]
    BY <1>1 DEF NextClass
  <1>3. boot.class + 1 \in 1..7 /\ (boot.class # 6 => boot.class + 1 \in 1..6)
    OBVIOUS
  <1>4. CASE boot.class = 6
    BY <1>2, <1>3, <1>4 DEF BootStep
  <1>5. CASE boot.class # 6
    BY <1>2, <1>3, <1>5 DEF BootStep
  <1> QED
    BY <1>4, <1>5

\* Steps of the boot thread that touch neither slots nor lines.
LEMMA BootMoves ==
  ASSUME SlotInv,
         UNCHANGED <<hardware, ls_slotsinuse, ls_irqfuncs, nextunit, unit, the, asserted, enabled, dispatch,
                     panicked, driverless>>,
         boot' \in [at : BootStep, class : 1..7, slot : Slot \union {NONE}, kids : Seq(Child)],
         boot'.at \in {"attach", "done", "running"},
         boot'.at = "attach" => boot'.class \in 1..6
  PROVE  SlotInv'
  <1> USE DEF hardware
  <1>1. BusTypes'
    BY DEF SlotInv, BusTypes
  <1>2. FoundSlot' /\ SlotsInOrder'
    BY DEF SlotInv, FoundSlot, SlotsInOrder
  <1>3. UnitsExact'
    BY UnitsAlone DEF SlotInv
  <1>4. LinesDriven' /\ ChildrenCounted' /\ PanicsExplained'
    BY DEF SlotInv, LinesDriven, HasDriver, ChildrenCounted, PanicsExplained
  <1> QED
    BY <1>1, <1>2, <1>3, <1>4 DEF SlotInv

\* lamebus_probe finds the lowest free slot of the class.
LEMMA ProbeIs ==
  ASSUME SlotInv, NEW c, lamebus_probe(c) # NONE
  PROVE  /\ lamebus_probe(c) \in Slot \ ls_slotsinuse /\ card[lamebus_probe(c)] = c
         /\ \A t \in Slot \ ls_slotsinuse : card[t] = c => lamebus_probe(c) <= t
  <1> DEFINE found == {s \in Slot \ ls_slotsinuse : card[s] = c}
  <1>1. found # {}
    BY DEF lamebus_probe
  <1>2. lamebus_probe(c) = CHOOSE s \in found : \A t \in found : s <= t
    BY <1>1 DEF lamebus_probe
  <1>3. found \in SUBSET Nat
    BY BusAssumption DEF Slot
  <1>4. \E s \in found : \A t \in found : s <= t
    BY <1>1, <1>3, LowestOne
  <1>5. lamebus_probe(c) \in found /\ \A t \in found : lamebus_probe(c) <= t
    BY <1>2, <1>4
  <1> QED
    BY <1>5

LEMMA AttachesKept ==
  ASSUME SlotInv, Attaches
  PROVE  SlotInv'
  <1> USE DEF hardware, irqVars
  <1>1. boot.at = "attach"
    BY DEF Attaches, Booting
  <1>2. boot.class \in 1..6 /\ class \in ClassName
    BY <1>1, LookingIs
  <1>3. CASE NextClass
    BY <1>2, <1>3, NextClassIs, BootMoves DEF Attaches
  <1>4. CASE ~ NextClass
    <2> DEFINE s == lamebus_probe(class)
    <2>1. s # NONE /\ boot' = [boot EXCEPT !.at = "mark", !.slot = s]
      BY <1>4 DEF Attaches
    <2>2. s \in Slot \ ls_slotsinuse /\ card[s] = class
          /\ \A t \in Slot \ ls_slotsinuse : card[t] = class => s <= t
      BY <2>1, ProbeIs
    <2> HIDE DEF s
    <2>3. boot'.at = "mark" /\ boot'.class = boot.class /\ boot'.slot = s /\ class' = class
      BY <2>1 DEF SlotInv, BusTypes, class
    <2>4. BusTypes'
      BY <2>1, <2>2 DEF Attaches, SlotInv, BusTypes, BootStep
    <2>5. FoundSlot'
      BY <1>2, <2>2, <2>3 DEF Attaches, FoundSlot
    <2>6. SlotsInOrder'
      BY <2>2, <2>3 DEF Attaches, SlotInv, SlotsInOrder
    <2>7. UnitsExact'
      BY UnitsAlone DEF SlotInv, Attaches
    <2>8. LinesDriven' /\ ChildrenCounted' /\ PanicsExplained'
      BY DEF SlotInv, Attaches, LinesDriven, HasDriver, ChildrenCounted, PanicsExplained
    <2> QED
      BY <2>4, <2>5, <2>6, <2>7, <2>8 DEF SlotInv
  <1> QED
    BY <1>3, <1>4

LEMMA MarkKept ==
  ASSUME SlotInv, lamebus_mark
  PROVE  SlotInv'
  <1> USE DEF hardware, irqVars
  <1> DEFINE s == boot.slot
  <1>1. boot.at = "mark"
    BY DEF lamebus_mark, Booting
  <1>2. boot.class \in 1..6 /\ class \in ClassName /\ Slot \subseteq Nat
    BY <1>1, LookingIs
  <1>3. s \in Slot \ ls_slotsinuse /\ card[s] = class /\ unit[s] = NONE /\ ls_irqfuncs[s] = NONE
        /\ \A t \in Slot \ ls_slotsinuse : card[t] = class => s <= t
    BY <1>1 DEF SlotInv, FoundSlot, SlotsInOrder
  <1>4. panicked' = panicked /\ ls_slotsinuse' = ls_slotsinuse \union {s}
    BY <1>3 DEF lamebus_mark
  <1>5. /\ boot' = [boot EXCEPT !.at = IF HasIrq(class) THEN "interrupt" ELSE "config"]
        /\ UNCHANGED <<hardware, ls_irqfuncs, nextunit, unit, the, irqVars>>
    BY DEF lamebus_mark
  <1>6. /\ boot'.at \in {"interrupt", "config"} /\ (boot'.at = "config" <=> ~HasIrq(class))
        /\ boot'.class = boot.class /\ boot'.slot = s /\ class' = class
    BY <1>5 DEF SlotInv, BusTypes, class
  <1>7. BusTypes'
    BY <1>3, <1>4, <1>5 DEF SlotInv, BusTypes, BootStep
  <1>8. FoundSlot'
    <2>1. \A t \in ls_slotsinuse' : card[t] = class => t <= s
      <3> SUFFICES ASSUME NEW t \in ls_slotsinuse', card[t] = class PROVE t <= s
        OBVIOUS
      <3>1. CASE t = s
        BY <3>1, <1>2, <1>3
      <3>2. CASE t # s
        <4>1. t \in ls_slotsinuse /\ t \in Nat /\ s \in Nat
          BY <3>2, <1>2, <1>3, <1>4 DEF SlotInv, BusTypes
        <4>2. t < s
          BY <4>1, <1>2, <1>3 DEF SlotInv, SlotsInOrder
        <4> QED
          BY <4>1, <4>2
      <3> QED
        BY <3>1, <3>2
    <2> QED
      BY <1>2, <1>3, <1>4, <1>5, <1>6, <2>1 DEF FoundSlot
  <1>9. SlotsInOrder'
    <2>1. ASSUME NEW c \in ClassName, NEW a \in ls_slotsinuse', NEW t \in Slot \ ls_slotsinuse',
                 card[a] = c, card[t] = c
          PROVE  a < t
      <3>1. t \in Slot \ ls_slotsinuse /\ t # s /\ t \in Nat /\ s \in Nat
        BY <1>2, <1>3, <1>4
      <3>2. CASE a = s
        BY <1>3, <2>1, <3>1, <3>2
      <3>3. CASE a # s
        BY <1>4, <2>1, <3>1, <3>3 DEF SlotInv, SlotsInOrder
      <3> QED
        BY <3>2, <3>3
    <2> QED
      BY <1>4, <1>5, <1>6, <2>1 DEF SlotInv, SlotsInOrder
  <1>10. UnitsExact'
    BY <1>4, <1>5, UnitsAlone DEF SlotInv
  <1>11. LinesDriven' /\ ChildrenCounted' /\ PanicsExplained'
    BY <1>4, <1>5 DEF SlotInv, LinesDriven, HasDriver, ChildrenCounted, PanicsExplained
  <1> QED
    BY <1>7, <1>8, <1>9, <1>10, <1>11 DEF SlotInv

LEMMA AttachInterruptKept ==
  ASSUME SlotInv, lamebus_attach_interrupt
  PROVE  SlotInv'
  <1> USE DEF hardware, irqVars
  <1> DEFINE s == boot.slot
  <1>1. boot.at = "interrupt"
    BY DEF lamebus_attach_interrupt, Booting
  <1>2. boot.class \in 1..6 /\ class \in ClassName /\ NONE \notin Slot
    BY <1>1, LookingIs
  <1>3. s \in Slot /\ card[s] = class /\ s \in ls_slotsinuse /\ ls_irqfuncs[s] = NONE /\ unit[s] = NONE
        /\ \A t \in ls_slotsinuse : card[t] = class => t <= s
    BY <1>1 DEF SlotInv, FoundSlot
  <1>4. /\ panicked' = panicked /\ ls_irqfuncs' = [ls_irqfuncs EXCEPT ![s] = s]
        /\ boot' = [boot EXCEPT !.at = "config"]
        /\ UNCHANGED <<hardware, ls_slotsinuse, nextunit, unit, the, irqVars>>
    BY <1>3 DEF lamebus_attach_interrupt
  <1>5. boot'.at = "config" /\ boot'.class = boot.class /\ boot'.slot = s /\ class' = class
    BY <1>4 DEF SlotInv, BusTypes, class
  <1>6. ls_irqfuncs'[s] = s /\ \A t \in Slot : t # s => ls_irqfuncs'[t] = ls_irqfuncs[t]
    BY <1>3, <1>4 DEF SlotInv, BusTypes
  <1>7. BusTypes'
    BY <1>3, <1>4 DEF SlotInv, BusTypes, BootStep
  <1>8. FoundSlot'
    BY <1>2, <1>3, <1>4, <1>5, <1>6 DEF FoundSlot
  <1>9. SlotsInOrder'
    BY <1>3, <1>4, <1>5, <1>6 DEF SlotInv, SlotsInOrder
  <1>10. UnitsExact'
    BY <1>4, <1>6, UnitsAlone DEF SlotInv
  <1>11. LinesDriven'
    BY <1>2, <1>3, <1>4, <1>6 DEF SlotInv, LinesDriven, HasDriver
  <1>12. ChildrenCounted' /\ PanicsExplained'
    BY <1>4 DEF SlotInv, ChildrenCounted, PanicsExplained
  <1> QED
    BY <1>7, <1>8, <1>9, <1>10, <1>11, <1>12 DEF SlotInv

\* The new unit is the next of its class, in the highest of the class's slots.
LEMMA UnitsGrow ==
  ASSUME SlotInv, boot.at = "config",
         unit' = [unit EXCEPT ![boot.slot] = nextunit[class]],
         nextunit' = [nextunit EXCEPT ![class] = @ + 1],
         UNCHANGED <<card, ls_slotsinuse, ls_irqfuncs>>
  PROVE  UnitsExact'
  <1> DEFINE s == boot.slot  n == nextunit[class]
  <1>1. boot.class \in 1..6 /\ class \in ClassName /\ NONE \notin Slot /\ Slot \subseteq Nat
    BY LookingIs
  <1>2. s \in Slot /\ card[s] = class /\ s \in ls_slotsinuse /\ unit[s] = NONE
        /\ (HasIrq(class) => ls_irqfuncs[s] = s)
        /\ \A t \in ls_slotsinuse : card[t] = class => t <= s
    BY DEF SlotInv, FoundSlot
  <1>3. n \in Nat /\ nextunit'[class] = n + 1 /\ \A c \in ClassName : c # class => nextunit'[c] = nextunit[c]
    BY <1>1 DEF SlotInv, BusTypes
  <1>4. unit'[s] = n /\ n # NONE /\ \A t \in Slot : t # s => unit'[t] = unit[t]
    BY <1>2, <1>3 DEF SlotInv, BusTypes, NONE
  <1>5. \A c : c = class => Units(c)' = Units(c) \union {s} /\ s \notin Units(c)
    BY <1>2, <1>4 DEF Units
  <1>6. \A c : c # class => Units(c)' = Units(c) /\ s \notin Units(c)
    BY <1>2, <1>4 DEF Units
  <1>7. \A t \in Units(class) : t \in Slot /\ t # s /\ t < s /\ unit'[t] = unit[t] /\ unit[t] \in 0..(n - 1)
    <2> SUFFICES ASSUME NEW t \in Units(class)
                 PROVE  t \in Slot /\ t # s /\ t < s /\ unit'[t] = unit[t] /\ unit[t] \in 0..(n - 1)
      OBVIOUS
    <2>1. t \in Slot /\ unit[t] # NONE /\ card[t] = class /\ t # s
      BY <1>5 DEF Units
    <2>2. t \in ls_slotsinuse /\ t \in Nat /\ s \in Nat
      BY <1>1, <1>2, <2>1 DEF SlotInv, UnitsExact
    <2>3. unit[t] \in 0..(n - 1)
      BY <1>1 DEF SlotInv, UnitsExact, ClassName
    <2> QED
      BY <1>2, <1>4, <2>1, <2>2, <2>3
  <1>8. ASSUME NEW c \in ClassName
        PROVE  /\ {unit'[t] : t \in Units(c)'} = 0..(nextunit'[c] - 1)
               /\ \A a, t \in Units(c)' : a < t => unit'[a] < unit'[t]
    <2>1. {unit[t] : t \in Units(c)} = 0..(nextunit[c] - 1) /\ \A a, t \in Units(c) : a < t => unit[a] < unit[t]
      BY DEF SlotInv, UnitsExact, ClassName
    <2>2. CASE c # class
      <3>1. Units(c)' = Units(c) /\ \A t \in Units(c) : unit'[t] = unit[t]
        BY <1>4, <1>6, <2>2 DEF Units
      <3> QED
        BY <1>3, <2>1, <2>2, <3>1
    <2>3. CASE c = class
      <3>1. {unit'[t] : t \in Units(c)'} = {unit[t] : t \in Units(c)} \union {n}
        BY <1>4, <1>5, <1>7, <2>3
      <3>2. (0..(n - 1)) \union {n} = 0..(n + 1 - 1)
        BY <1>3
      <3>3. ASSUME NEW a \in Units(c)', NEW t \in Units(c)', a < t PROVE unit'[a] < unit'[t]
        <4>1. a # s
          <5> SUFFICES ASSUME a = s PROVE FALSE
            OBVIOUS
          <5>2. t = s \/ t \in Units(class)
            BY <1>5, <2>3
          <5>3. t \in Units(class) => t \in Nat /\ t < s
            BY <1>1, <1>7
          <5>1. s \in Nat /\ (t = s \/ (t \in Nat /\ t < s))
            BY <1>1, <1>2, <5>2, <5>3
          <5> QED
            BY <3>3, <5>1
        <4>2. a \in Units(c) /\ unit'[a] = unit[a] /\ unit[a] \in 0..(n - 1)
          BY <1>5, <1>7, <2>3, <4>1
        <4>3. CASE t = s
          BY <1>3, <1>4, <4>2, <4>3
        <4>4. CASE t # s
          <5>1. t \in Units(c) /\ unit'[t] = unit[t]
            BY <1>5, <1>7, <2>3, <4>4
          <5> QED
            BY <2>1, <3>3, <4>2, <5>1
        <4> QED
          BY <4>3, <4>4
      <3> QED
        BY <1>3, <2>1, <2>3, <3>1, <3>2, <3>3
    <2> QED
      BY <2>2, <2>3
  <1>9. \A t \in Slot : unit'[t] # NONE => t \in ls_slotsinuse /\ (HasIrq(card[t]) => ls_irqfuncs[t] = t)
    BY <1>2, <1>4 DEF SlotInv, UnitsExact
  <1> QED
    BY <1>8, <1>9 DEF UnitsExact, ClassName

LEMMA ConfigKept ==
  ASSUME SlotInv, Config
  PROVE  SlotInv'
  <1> USE DEF hardware
  <1> DEFINE s == boot.slot
  <1>1. boot.at = "config"
    BY DEF Config, Booting
  <1>2. boot.class \in 1..6 /\ class \in ClassName /\ NONE \notin Slot
    BY <1>1, LookingIs
  <1>3. s \in Slot /\ card[s] = class /\ s \in ls_slotsinuse /\ (HasIrq(class) => ls_irqfuncs[s] = s)
    BY <1>1 DEF SlotInv, FoundSlot
  <1>4. UNCHANGED <<hardware, ls_slotsinuse, ls_irqfuncs, the, asserted, dispatch, driverless, panicked>>
    BY DEF Config
  <1>5. CASE NextClass /\ UNCHANGED <<nextunit, unit, enabled>>
    BY <1>2, <1>4, <1>5, NextClassIs, BootMoves
  <1>6. CASE ~ (NextClass /\ UNCHANGED <<nextunit, unit, enabled>>)
    <2>1. /\ unit' = [unit EXCEPT ![s] = nextunit[class]]
          /\ nextunit' = [nextunit EXCEPT ![class] = @ + 1]
          /\ enabled' = (IF HasIrq(class) THEN enabled \union {s} ELSE enabled)
          /\ boot' = [boot EXCEPT !.at = "child", !.kids = Children(class)]
      BY <1>6 DEF Config
    <2>2. boot'.at = "child" /\ boot'.class = boot.class /\ boot'.slot = s /\ class' = class
      BY <2>1 DEF SlotInv, BusTypes, class
    <2>3. nextunit[class] \in Nat /\ Children(class) \in Seq(Child)
      BY <1>2, ClassesAre DEF SlotInv, BusTypes
    <2>4. BusTypes'
      <3>1. boot' \in [at : BootStep, class : 1..7, slot : Slot \union {NONE}, kids : Seq(Child)]
        BY <2>1, <2>3 DEF SlotInv, BusTypes, BootStep
      <3>2. unit' \in [Slot -> Nat \union {NONE}] /\ nextunit' \in [ClassName \union Child -> Nat]
        BY <1>2, <1>3, <2>1, <2>3 DEF SlotInv, BusTypes
      <3> QED
        BY <1>4, <3>1, <3>2 DEF SlotInv, BusTypes
    <2>5. FoundSlot'
      BY <1>2, <1>3, <1>4, <2>2 DEF FoundSlot
    <2>6. SlotsInOrder'
      <3>1. \A t \in Slot \ ls_slotsinuse : unit'[t] = unit[t]
        BY <1>3, <2>1 DEF SlotInv, BusTypes
      <3> QED
        BY <1>4, <2>2, <3>1 DEF SlotInv, SlotsInOrder
    <2>7. UnitsExact'
      BY <1>1, <1>4, <2>1, UnitsGrow
    <2>8. LinesDriven'
      BY <1>2, <1>3, <1>4, <2>1 DEF SlotInv, LinesDriven, HasDriver
    <2>9. ChildrenCounted'
      <3>1. \A d \in {"beep", "rtclock"} : nextunit'[d] = nextunit[d]
        BY <1>2, <2>1, ClassesAre DEF SlotInv, BusTypes, Child
      <3> QED
        BY <1>4, <3>1 DEF SlotInv, ChildrenCounted
    <2>10. PanicsExplained'
      BY <1>4 DEF SlotInv, PanicsExplained
    <2> QED
      BY <2>4, <2>5, <2>6, <2>7, <2>8, <2>9, <2>10 DEF SlotInv
  <1> QED
    BY <1>5, <1>6

LEMMA TryChildKept ==
  ASSUME SlotInv, TryChild
  PROVE  SlotInv'
  <1> USE DEF hardware, irqVars
  <1> DEFINE s == boot.slot  K == boot.kids  B == [at : BootStep, class : 1..7, slot : Slot \union {NONE}, kids : Seq(Child)]
  <1>1. boot.at = "child" /\ panicked = "no"
    BY DEF TryChild, Booting
  <1>2. boot.class \in 1..6 /\ class \in ClassName /\ NONE \notin Slot
    BY <1>1, LookingIs
  <1>3. s \in Slot /\ card[s] = class /\ K \in Seq(Child) /\ boot \in B
    BY <1>1 DEF SlotInv, FoundSlot, BusTypes
  <1>4. UNCHANGED <<hardware, ls_slotsinuse, ls_irqfuncs, unit, irqVars>>
    BY DEF TryChild
  <1>5. CASE K = <<>>
    <2>1. boot' = [boot EXCEPT !.at = "attach", !.slot = NONE] /\ UNCHANGED <<the, nextunit, panicked>>
      BY <1>5 DEF TryChild
    <2>2. boot' \in B /\ boot'.at = "attach" /\ boot'.class = boot.class
      BY <1>3, <2>1 DEF BootStep
    <2> QED
      BY <1>2, <1>4, <2>1, <2>2, BootMoves
  <1>6. CASE K # <<>>
    <2> DEFINE d == Head(K)
    <2>1. d \in Child /\ Tail(K) \in Seq(Child)
      BY <1>3, <1>6
    <2>2. boot' = [boot EXCEPT !.kids = Tail(@)]
      BY <1>6 DEF TryChild
    <2>3. boot' \in B /\ boot'.at = "child" /\ boot'.class = boot.class /\ boot'.slot = s /\ class' = class
      BY <1>1, <1>3, <2>1, <2>2 DEF class
    <2> HIDE DEF d
    <2>4. \/ UNCHANGED <<the, nextunit, panicked>>
          \/ /\ nextunit[d] = 0
             /\ panicked' = IF the[d] # NONE THEN d ELSE panicked
             /\ the' = [the EXCEPT ![d] = s]
             /\ \/ nextunit' = [nextunit EXCEPT ![d] = 1]
                \/ d \in {"random", "con"} /\ nextunit' = nextunit
      BY <1>6 DEF TryChild, d
    <2>5. the \in [Child -> Slot \union {NONE}] /\ nextunit \in [ClassName \union Child -> Nat]
      BY DEF SlotInv, BusTypes
    <2>6. the' \in [Child -> Slot \union {NONE}] /\ nextunit' \in [ClassName \union Child -> Nat]
      BY <1>3, <2>1, <2>4, <2>5
    <2>7. \A c \in ClassName : nextunit'[c] = nextunit[c]
      BY <2>1, <2>4, <2>5, ClassesAre
    <2>8. BusTypes'
      BY <1>4, <2>3, <2>6 DEF SlotInv, BusTypes
    <2>9. FoundSlot' /\ SlotsInOrder'
      BY <1>2, <1>3, <1>4, <2>3 DEF SlotInv, FoundSlot, SlotsInOrder
    <2>10. UnitsExact'
      BY <1>4, <2>7, UnitsAlone DEF SlotInv
    <2>11. LinesDriven'
      BY <1>4 DEF SlotInv, LinesDriven, HasDriver
    <2>12. ChildrenCounted'
      <3> SUFFICES ASSUME NEW e \in {"beep", "rtclock"}, the'[e] # NONE PROVE nextunit'[e] = 1
        BY DEF ChildrenCounted
      <3>1. e \in Child /\ e \notin {"random", "con"}
        BY DEF Child
      <3>2. the[e] # NONE => nextunit[e] = 1
        BY DEF SlotInv, ChildrenCounted
      <3>3. CASE e = d
        BY <2>1, <2>4, <2>5, <3>1, <3>2, <3>3
      <3>4. CASE e # d
        BY <2>1, <2>4, <2>5, <3>1, <3>2, <3>4
      <3> QED
        BY <3>3, <3>4
    <2>13. PanicsExplained'
      <3>1. the[d] # NONE /\ nextunit[d] = 0 => d \in {"random", "con"}
        BY <2>1 DEF SlotInv, ChildrenCounted, Child
      <3> QED
        BY <1>4, <2>4, <3>1 DEF SlotInv, PanicsExplained
    <2> QED
      BY <2>8, <2>9, <2>10, <2>11, <2>12, <2>13 DEF SlotInv
  <1> QED
    BY <1>5, <1>6

\* Every step of the bus keeps its invariant.
LEMMA BusStepInv == BusInv /\ [BusNext]_busVars => BusInv'
  <1> SUFFICES ASSUME BusInv, [BusNext]_busVars PROVE BusInv'
    OBVIOUS
  <1>1. SlotInv /\ CpusInOrder /\ ReadingsTimed /\ BusTypes
    BY DEF BusInv, SlotInv
  <1>2. CpusInOrder' /\ ReadingsTimed'
    BY <1>1, CpusKept, ReadingsKept
  <1>3. SlotInv'
    <2>1. CASE lamebus_find_cpus
      <3>1. boot'.at = "attach" /\ boot'.class = boot.class /\ boot.class \in 1..6
            /\ boot' \in [at : BootStep, class : 1..7, slot : Slot \union {NONE}, kids : Seq(Child)]
        BY <1>1, <2>1 DEF lamebus_find_cpus, SlotInv, FoundSlot, BusTypes, BootStep
      <3> QED
        BY <1>1, <2>1, <3>1, BootMoves DEF lamebus_find_cpus, irqVars
    <2>2. CASE lamebus_start_cpus
      <3>1. boot'.at = "running"
            /\ boot' \in [at : BootStep, class : 1..7, slot : Slot \union {NONE}, kids : Seq(Child)]
        BY <1>1, <2>2 DEF lamebus_start_cpus, BusTypes, BootStep
      <3> QED
        BY <1>1, <2>2, <3>1, BootMoves DEF lamebus_start_cpus, irqVars
    <2>3. CASE BusMove
      BY <1>1, <2>3, AttachesKept, MarkKept, AttachInterruptKept, ConfigKept, TryChildKept DEF BusMove
    <2>4. CASE LineMove
      BY <1>1, <2>4, LineMoveKept
    <2>5. CASE Tick \/ ltimer_gettime \/ UNCHANGED busVars
      <3>1. UNCHANGED <<slotVars, asserted, dispatch, panicked, driverless>>
        BY <2>5 DEF Tick, ltimer_gettime, busVars, slotVars, hardware, irqVars
      <3> QED
        BY <1>1, <3>1, LinesKept DEF SlotInv, BusTypes, LinesDriven, slotVars
    <2> QED
      BY <2>1, <2>2, <2>3, <2>4, <2>5, BusNextIs
  <1> QED
    BY <1>2, <1>3 DEF BusInv

\* Whatever cards and CPUs the machine has and whenever interrupts come, cards
\* are numbered in the order of their slots, every interrupt meets the driver
\* of its slot, a CPU that starts finds its own structure and ltimer_gettime
\* returns a time the clock has shown (lamebus_probe, lamebus_mark,
\* lamebus_attach_interrupt, lamebus_interrupt, lamebus_find_cpus,
\* lamebus_start_cpus, ltimer_gettime).
THEOREM BusSoundThm == BusSpec => []BusSound
  <1>1. BusInv => BusSound
    BY NumbersFromOrder, TimeFromReadings DEF BusInv, SlotInv, BusSound
  <1> QED
    BY BusInitInv, BusStepInv, <1>1, PTL DEF BusSpec

-----------------------------------------------------------------------------
(* The emulator: its calls *)

Word == {"bigP", "bigV", "eP", "eV", "op", "wait", "load", "decref", "check", "remove"}
\* The steps that a call may still have to do.
Look1 == <<"bigP", "eP", "op", "wait", "eV", "bigP", "eP", "load", "eV", "bigV", "bigV">>
Look2 == <<"eP", "op", "wait", "eV", "bigP", "eP", "load", "eV", "bigV", "bigV">>
Look3 == <<"op", "wait", "eV", "bigP", "eP", "load", "eV", "bigV", "bigV">>
Look4 == <<"wait", "eV", "bigP", "eP", "load", "eV", "bigV", "bigV">>
Look5 == <<"eV", "bigP", "eP", "load", "eV", "bigV", "bigV">>
Look6 == <<"bigP", "eP", "load", "eV", "bigV", "bigV">>
Look7 == <<"eP", "load", "eV", "bigV", "bigV">>
Look8 == <<"load", "eV", "bigV", "bigV">>
Look9 == <<"eV", "bigV", "bigV">>
Look10 == <<"bigV", "bigV">>
Look11 == <<"bigV">>
Creat1 == <<"eP", "op", "wait", "eV", "bigP", "eP", "load", "eV", "bigV">>
Creat2 == <<"op", "wait", "eV", "bigP", "eP", "load", "eV", "bigV">>
Creat3 == <<"wait", "eV", "bigP", "eP", "load", "eV", "bigV">>
Creat4 == <<"eV", "bigP", "eP", "load", "eV", "bigV">>
Creat5 == <<"bigP", "eP", "load", "eV", "bigV">>
Creat6 == <<"eP", "load", "eV", "bigV">>
Creat7 == <<"load", "eV", "bigV">>
Creat8 == <<"eV", "bigV">>
Io1 == <<"eP", "op", "wait", "eV", "eP", "op", "wait", "eV">>
Io2 == <<"op", "wait", "eV", "eP", "op", "wait", "eV">>
Io3 == <<"wait", "eV", "eP", "op", "wait", "eV">>
Io4 == <<"eV", "eP", "op", "wait", "eV">>
Io5 == <<"eP", "op", "wait", "eV">>
Io6 == <<"op", "wait", "eV">>
Io7 == <<"wait", "eV">>
Io8 == <<"eV">>
Back1 == <<"eV", "bigV", "eP", "op", "wait", "eV", "bigV">>
Back2 == <<"bigV", "eP", "op", "wait", "eV", "bigV">>
Back3 == <<"eP", "op", "wait", "eV", "bigV">>
Back4 == <<"op", "wait", "eV", "bigV">>
Back5 == <<"wait", "eV", "bigV">>
Undo1 == <<"eV", "bigV", "eP", "op", "wait", "eV">>
Undo2 == <<"bigV", "eP", "op", "wait", "eV">>
Leak1 == <<"eV", "eP", "op", "wait", "eV", "bigV">>
Drop1 == <<"bigP", "decref", "bigV">>
Drop2 == <<"decref", "bigV">>
Recl1 == <<"bigP", "eP", "check", "op", "wait", "remove", "eV", "bigV", "bigV">>
Recl2 == <<"eP", "check", "op", "wait", "remove", "eV", "bigV", "bigV">>
Recl3 == <<"check", "op", "wait", "remove", "eV", "bigV", "bigV">>
Recl4 == <<"op", "wait", "remove", "eV", "bigV", "bigV">>
Recl5 == <<"wait", "remove", "eV", "bigV", "bigV">>
Recl6 == <<"remove", "eV", "bigV", "bigV">>
Try1 == <<"op", "wait">>
Try2 == <<"wait">>
Part1 == <<"bigP", "eP", "check", "op", "wait", "remove", "eV", "bigV">>
Part2 == <<"eP", "check", "op", "wait", "remove", "eV", "bigV">>
Part3 == <<"check", "op", "wait", "remove", "eV", "bigV">>
Part4 == <<"op", "wait", "remove", "eV", "bigV">>
Part5 == <<"wait", "remove", "eV", "bigV">>
Part6 == <<"remove", "eV", "bigV">>
Long1 == <<"bigP", "eP", "op", "wait", "eV", "bigP", "eP", "load", "eV", "bigV">>
Short1 == <<"bigP", "eP", "op", "wait", "eV">>

\* The step is still ahead; the next thing done to e_lock is to give it back.
Ahead(s, w) == \E i \in 1..Len(s) : s[i] = w
LockedIn(s) == \E i \in 1..Len(s) : s[i] = "eV" /\ \A j \in 1..(i - 1) : s[j] # "eP"

\* The steps that a call of each kind may be at.
Looking(s) == s \in {Look1, Look2, Look3, Look4, Look5, Look6, Look7, Look8, Look9, Look10, Look11, Creat8}
Creating(s) == s \in {Creat1, Creat2, Creat3, Creat4, Creat5, Creat6, Creat7, Creat8, Look11, Io8}
Moving(s) == s \in {Io1, Io2, Io3, Io4, Io5, Io6, Io7, Io8}
Returning(s) == s \in {Back1, Back2, Back3, Back4, Back5, Undo1, Undo2, Leak1, Io4, Io5, Io6, Io7, Io8, Creat8, Look11}
Dropping(s) == s \in {Drop1, Drop2, Recl1, Recl2, Recl3, Recl4, Recl5, Recl6, Look9, Look10, Look11}

Fits(cmd, s, outer) ==
    \/ cmd = "none" /\ s = <<>>
    \/ cmd = "open" /\ outer = <<"bigV">> /\ Looking(s)
    \/ cmd = "open" /\ outer = <<>> /\ Creating(s)
    \/ cmd = "io" /\ Moving(s)
    \/ cmd = "close" /\ Returning(s)
    \/ cmd = "close" /\ outer = <<"bigV">> /\ Dropping(s)

Handle0 == Handle \union {EMU_ROOTHANDLE}

CallRec == [todo : Seq(Word), cmd : {"none", "open", "io", "close"}, h : Handle0, outer : Seq(Word), tries : Nat]

EmuTypes ==
    /\ e_lock \in EmuThread \union {NoHolder} /\ e_sem \in {0, 1}
    /\ reg \in [stat : {"idle", "working", "ok", "EIO"}, oper : {"none", "open", "io", "close"}, h : Handle0]
    /\ hwopen \subseteq Handle /\ ef_vnodes \in [Handle -> Nat]
    /\ call \in [EmuThread -> CallRec]
    /\ has \in [EmuThread -> Handle0]

\* A call has in hand what it opened until it is loaded or closed; one that
\* gives up a reference has it until it is counted.
Keeps(t) == \/ call[t].cmd = "open" /\ Ahead(call[t].todo, "load") /\ ~Ahead(call[t].todo, "wait")
            \/ call[t].cmd = "close" /\ Ahead(call[t].todo, "wait") /\ ~Ahead(call[t].todo, "remove")
Drops(t) == call[t].cmd = "close" /\ (Ahead(call[t].todo, "decref") \/ Ahead(call[t].todo, "remove"))
Reclaims(t) == call[t].cmd = "close" /\ Ahead(call[t].todo, "remove") /\ ~Ahead(call[t].todo, "check")

\* The hardware has done what the thread waits for.
Done(t) == e_lock = t /\ At(t, "wait") /\ (reg.stat = "ok" \/ (e_sem = 1 /\ e_result = "ok"))
Opened(t) == call[t].cmd = "open" /\ Done(t)
Mine(t, h) == (Keeps(t) /\ call[t].h = h) \/ (Opened(t) /\ reg.h = h)
Shut(t) == call[t].cmd = "close" /\ Done(t)
Gone(t) == Done(t) \/ At(t, "remove")

CallFits(t) ==
    LET c == call[t]
    IN  /\ Fits(c.cmd, c.todo, c.outer)
        /\ c.cmd = "none" => c = NoCall
        /\ c.cmd = "io" => has[t] = c.h /\ c.h \in Handle
        /\ c.cmd = "close" \/ Ahead(c.todo, "load") => has[t] = EMU_ROOTHANDLE
        /\ Keeps(t) \/ Drops(t) => c.h \in Handle

EmuFits == \A t \in EmuThread : CallFits(t)

EmuLocked == \A t \in EmuThread : LockedIn(call[t].todo) <=> e_lock = t

\* The hardware works, and answers, for the thread that has e_lock.
EmuBusy ==
    /\ reg.stat # "idle" => e_sem = 0
    /\ reg.stat # "idle" \/ e_sem = 1 =>
          /\ e_lock # NoHolder /\ At(e_lock, "wait") /\ reg.oper = call[e_lock].cmd
          /\ Opened(e_lock) \/ reg.h = call[e_lock].h

Holding(h) == {t \in EmuThread : has[t] = h \/ (Drops(t) /\ call[t].h = h)}

\* Who has a handle: a vnode, which has as many references as it has holders,
\* until the hardware has closed it for the one that reclaims it; or the one
\* call whose it is.
Counted(h) == ef_vnodes[h] >= Cardinality(Holding(h))
Loaded(h) == ef_vnodes[h] > 0 => h \in hwopen \/ \E t \in EmuThread : Reclaims(t) /\ call[t].h = h
Owned(h) == h \in hwopen => ef_vnodes[h] > 0 \/ h \in gaveup \/ \E t \in EmuThread : Mine(t, h)
Reclaimed(t) == Reclaims(t) => ef_vnodes[call[t].h] = 1 /\ (call[t].h \in hwopen <=> ~Gone(t))
OnlyMine(t, h) ==
    Mine(t, h) => /\ h \in Handle /\ ef_vnodes[h] = 0
                  /\ h \in hwopen <=> ~Shut(t)
                  /\ \A u \in EmuThread : Mine(u, h) => u = t

EmuOwned ==
    /\ \A h \in Handle : Counted(h) /\ Loaded(h) /\ Owned(h)
    /\ \A t \in EmuThread : Reclaimed(t) /\ \A h \in Handle0 : OnlyMine(t, h)

EmuInv == EmuTypes /\ EmuFits /\ EmuLocked /\ EmuBusy /\ EmuOwned

-----------------------------------------------------------------------------
(* Lists of steps *)

Empty == <<>>
IsSteps(s) == s \in Seq(Word) /\ s # <<>>
First(s) == Head(s)
Then(s) == Tail(s)
Cat(s, t) == s \o t

LEMMA AheadIs ==
  ASSUME NEW s \in Seq(Word), s # <<>>, NEW w
  PROVE  Ahead(s, w) <=> Head(s) = w \/ Ahead(Tail(s), w)
  <1>1. /\ Len(s) \in Nat /\ Len(s) >= 1 /\ Len(Tail(s)) = Len(s) - 1 /\ Head(s) = s[1]
        /\ \A i \in 1..(Len(s) - 1) : Tail(s)[i] = s[i + 1]
    OBVIOUS
  <1>2. ASSUME NEW i \in 1..Len(s), s[i] = w, i # 1
        PROVE  Ahead(Tail(s), w)
    <2>1. (i - 1) \in 1..Len(Tail(s)) /\ Tail(s)[i - 1] = w
      BY <1>1, <1>2
    <2> QED
      BY <2>1 DEF Ahead
  <1>3. ASSUME NEW i \in 1..Len(Tail(s)), Tail(s)[i] = w
        PROVE  Ahead(s, w)
    <2>1. (i + 1) \in 1..Len(s) /\ s[i + 1] = w
      BY <1>1, <1>3
    <2> QED
      BY <2>1 DEF Ahead
  <1>4. Head(s) = w => Ahead(s, w)
    BY <1>1 DEF Ahead
  <1> QED
    BY <1>1, <1>2, <1>3, <1>4 DEF Ahead

LEMMA LockedInIs ==
  ASSUME NEW s \in Seq(Word), s # <<>>
  PROVE  LockedIn(s) <=> Head(s) = "eV" \/ (Head(s) # "eP" /\ LockedIn(Tail(s)))
  <1>1. /\ Len(s) \in Nat /\ Len(s) >= 1 /\ Len(Tail(s)) = Len(s) - 1 /\ Head(s) = s[1]
        /\ \A i \in 1..(Len(s) - 1) : Tail(s)[i] = s[i + 1]
    OBVIOUS
  <1>2. ASSUME Head(s) = "eV"
        PROVE  LockedIn(s)
    BY <1>1, <1>2 DEF LockedIn
  <1>3. ASSUME Head(s) # "eP", LockedIn(Tail(s))
        PROVE  LockedIn(s)
    <2>1. PICK i \in 1..Len(Tail(s)) : Tail(s)[i] = "eV" /\ \A j \in 1..(i - 1) : Tail(s)[j] # "eP"
      BY <1>3 DEF LockedIn
    <2>2. (i + 1) \in 1..Len(s) /\ s[i + 1] = "eV"
      BY <1>1, <2>1
    <2>3. ASSUME NEW j \in 1..i
          PROVE  s[j] # "eP"
      <3>1. CASE j = 1
        BY <1>1, <1>3, <3>1
      <3>2. CASE j # 1
        <4>1. (j - 1) \in 1..(i - 1) /\ Tail(s)[j - 1] = s[j]
          BY <1>1, <2>1, <3>2
        <4> QED
          BY <2>1, <4>1
      <3> QED
        BY <3>1, <3>2
    <2>4. (i + 1) - 1 = i
      BY <2>1
    <2> QED
      BY <2>2, <2>3, <2>4 DEF LockedIn
  <1>4. ASSUME LockedIn(s), Head(s) # "eV"
        PROVE  Head(s) # "eP" /\ LockedIn(Tail(s))
    <2>1. PICK i \in 1..Len(s) : s[i] = "eV" /\ \A j \in 1..(i - 1) : s[j] # "eP"
      BY <1>4 DEF LockedIn
    <2>2. i # 1
      BY <1>1, <1>4, <2>1
    <2>3. Head(s) # "eP"
      BY <1>1, <2>1, <2>2
    <2>4. (i - 1) \in 1..Len(Tail(s)) /\ Tail(s)[i - 1] = "eV"
      BY <1>1, <2>1, <2>2
    <2>5. ASSUME NEW j \in 1..((i - 1) - 1)
          PROVE  Tail(s)[j] # "eP"
      <3>1. (j + 1) \in 1..(i - 1) /\ Tail(s)[j] = s[j + 1]
        BY <1>1, <2>1
      <3> QED
        BY <2>1, <3>1
    <2> QED
      BY <2>3, <2>4, <2>5 DEF LockedIn
  <1> QED
    BY <1>2, <1>3, <1>4

LEMMA NothingAhead == ~LockedIn(Empty) /\ \A w : ~Ahead(Empty, w)
  <1>1. 1..Len(<<>>) = {}
    OBVIOUS
  <1> QED
    BY <1>1 DEF LockedIn, Ahead, Empty

\* What each list starts with and goes on with.
LEMMA StepsAre ==
  /\ IsSteps(Look11) /\ First(Look11) = "bigV" /\ Then(Look11) = Empty
  /\ IsSteps(Io8) /\ First(Io8) = "eV" /\ Then(Io8) = Empty
  /\ IsSteps(Try2) /\ First(Try2) = "wait" /\ Then(Try2) = Empty
  /\ IsSteps(Look10) /\ First(Look10) = "bigV" /\ Then(Look10) = Look11
  /\ IsSteps(Creat8) /\ First(Creat8) = "eV" /\ Then(Creat8) = Look11
  /\ IsSteps(Io7) /\ First(Io7) = "wait" /\ Then(Io7) = Io8
  /\ IsSteps(Drop2) /\ First(Drop2) = "decref" /\ Then(Drop2) = Look11
  /\ IsSteps(Try1) /\ First(Try1) = "op" /\ Then(Try1) = Try2
  /\ IsSteps(Look9) /\ First(Look9) = "eV" /\ Then(Look9) = Look10
  /\ IsSteps(Creat7) /\ First(Creat7) = "load" /\ Then(Creat7) = Creat8
  /\ IsSteps(Io6) /\ First(Io6) = "op" /\ Then(Io6) = Io7
  /\ IsSteps(Back5) /\ First(Back5) = "wait" /\ Then(Back5) = Creat8
  /\ IsSteps(Drop1) /\ First(Drop1) = "bigP" /\ Then(Drop1) = Drop2
  /\ IsSteps(Part6) /\ First(Part6) = "remove" /\ Then(Part6) = Creat8
  /\ IsSteps(Look8) /\ First(Look8) = "load" /\ Then(Look8) = Look9
  /\ IsSteps(Creat6) /\ First(Creat6) = "eP" /\ Then(Creat6) = Creat7
  /\ IsSteps(Io5) /\ First(Io5) = "eP" /\ Then(Io5) = Io6
  /\ IsSteps(Back4) /\ First(Back4) = "op" /\ Then(Back4) = Back5
  /\ IsSteps(Recl6) /\ First(Recl6) = "remove" /\ Then(Recl6) = Look9
  /\ IsSteps(Part5) /\ First(Part5) = "wait" /\ Then(Part5) = Part6
  /\ IsSteps(Look7) /\ First(Look7) = "eP" /\ Then(Look7) = Look8
  /\ IsSteps(Creat5) /\ First(Creat5) = "bigP" /\ Then(Creat5) = Creat6
  /\ IsSteps(Io4) /\ First(Io4) = "eV" /\ Then(Io4) = Io5
  /\ IsSteps(Back3) /\ First(Back3) = "eP" /\ Then(Back3) = Back4
  /\ IsSteps(Undo2) /\ First(Undo2) = "bigV" /\ Then(Undo2) = Io5
  /\ IsSteps(Recl5) /\ First(Recl5) = "wait" /\ Then(Recl5) = Recl6
  /\ IsSteps(Part4) /\ First(Part4) = "op" /\ Then(Part4) = Part5
  /\ IsSteps(Short1) /\ First(Short1) = "bigP" /\ Then(Short1) = Io5
  /\ IsSteps(Look6) /\ First(Look6) = "bigP" /\ Then(Look6) = Look7
  /\ IsSteps(Creat4) /\ First(Creat4) = "eV" /\ Then(Creat4) = Creat5
  /\ IsSteps(Io3) /\ First(Io3) = "wait" /\ Then(Io3) = Io4
  /\ IsSteps(Back2) /\ First(Back2) = "bigV" /\ Then(Back2) = Back3
  /\ IsSteps(Undo1) /\ First(Undo1) = "eV" /\ Then(Undo1) = Undo2
  /\ IsSteps(Leak1) /\ First(Leak1) = "eV" /\ Then(Leak1) = Back3
  /\ IsSteps(Recl4) /\ First(Recl4) = "op" /\ Then(Recl4) = Recl5
  /\ IsSteps(Part3) /\ First(Part3) = "check" /\ Then(Part3) = Part4
  /\ IsSteps(Look5) /\ First(Look5) = "eV" /\ Then(Look5) = Look6
  /\ IsSteps(Creat3) /\ First(Creat3) = "wait" /\ Then(Creat3) = Creat4
  /\ IsSteps(Io2) /\ First(Io2) = "op" /\ Then(Io2) = Io3
  /\ IsSteps(Back1) /\ First(Back1) = "eV" /\ Then(Back1) = Back2
  /\ IsSteps(Recl3) /\ First(Recl3) = "check" /\ Then(Recl3) = Recl4
  /\ IsSteps(Part2) /\ First(Part2) = "eP" /\ Then(Part2) = Part3
  /\ IsSteps(Look4) /\ First(Look4) = "wait" /\ Then(Look4) = Look5
  /\ IsSteps(Creat2) /\ First(Creat2) = "op" /\ Then(Creat2) = Creat3
  /\ IsSteps(Io1) /\ First(Io1) = "eP" /\ Then(Io1) = Io2
  /\ IsSteps(Recl2) /\ First(Recl2) = "eP" /\ Then(Recl2) = Recl3
  /\ IsSteps(Part1) /\ First(Part1) = "bigP" /\ Then(Part1) = Part2
  /\ IsSteps(Look3) /\ First(Look3) = "op" /\ Then(Look3) = Look4
  /\ IsSteps(Creat1) /\ First(Creat1) = "eP" /\ Then(Creat1) = Creat2
  /\ IsSteps(Recl1) /\ First(Recl1) = "bigP" /\ Then(Recl1) = Recl2
  /\ IsSteps(Look2) /\ First(Look2) = "eP" /\ Then(Look2) = Look3
  /\ IsSteps(Long1) /\ First(Long1) = "bigP" /\ Then(Long1) = Creat1
  /\ IsSteps(Look1) /\ First(Look1) = "bigP" /\ Then(Look1) = Look2
  <1>1. IsSteps(Look11) /\ First(Look11) = "bigV" /\ Then(Look11) = Empty
    BY DEF Word, IsSteps, First, Then, Look11, Empty
  <1>2. IsSteps(Io8) /\ First(Io8) = "eV" /\ Then(Io8) = Empty
    BY DEF Word, IsSteps, First, Then, Io8, Empty
  <1>3. IsSteps(Try2) /\ First(Try2) = "wait" /\ Then(Try2) = Empty
    BY DEF Word, IsSteps, First, Then, Try2, Empty
  <1>4. IsSteps(Look10) /\ First(Look10) = "bigV" /\ Then(Look10) = Look11
    BY DEF Word, IsSteps, First, Then, Look10, Look11
  <1>5. IsSteps(Creat8) /\ First(Creat8) = "eV" /\ Then(Creat8) = Look11
    BY DEF Word, IsSteps, First, Then, Creat8, Look11
  <1>6. IsSteps(Io7) /\ First(Io7) = "wait" /\ Then(Io7) = Io8
    BY DEF Word, IsSteps, First, Then, Io7, Io8
  <1>7. IsSteps(Drop2) /\ First(Drop2) = "decref" /\ Then(Drop2) = Look11
    BY DEF Word, IsSteps, First, Then, Drop2, Look11
  <1>8. IsSteps(Try1) /\ First(Try1) = "op" /\ Then(Try1) = Try2
    BY DEF Word, IsSteps, First, Then, Try1, Try2
  <1>9. IsSteps(Look9) /\ First(Look9) = "eV" /\ Then(Look9) = Look10
    BY DEF Word, IsSteps, First, Then, Look9, Look10
  <1>10. IsSteps(Creat7) /\ First(Creat7) = "load" /\ Then(Creat7) = Creat8
    BY DEF Word, IsSteps, First, Then, Creat7, Creat8
  <1>11. IsSteps(Io6) /\ First(Io6) = "op" /\ Then(Io6) = Io7
    BY DEF Word, IsSteps, First, Then, Io6, Io7
  <1>12. IsSteps(Back5) /\ First(Back5) = "wait" /\ Then(Back5) = Creat8
    BY DEF Word, IsSteps, First, Then, Back5, Creat8
  <1>13. IsSteps(Drop1) /\ First(Drop1) = "bigP" /\ Then(Drop1) = Drop2
    BY DEF Word, IsSteps, First, Then, Drop1, Drop2
  <1>14. IsSteps(Part6) /\ First(Part6) = "remove" /\ Then(Part6) = Creat8
    BY DEF Word, IsSteps, First, Then, Part6, Creat8
  <1>15. IsSteps(Look8) /\ First(Look8) = "load" /\ Then(Look8) = Look9
    BY DEF Word, IsSteps, First, Then, Look8, Look9
  <1>16. IsSteps(Creat6) /\ First(Creat6) = "eP" /\ Then(Creat6) = Creat7
    BY DEF Word, IsSteps, First, Then, Creat6, Creat7
  <1>17. IsSteps(Io5) /\ First(Io5) = "eP" /\ Then(Io5) = Io6
    BY DEF Word, IsSteps, First, Then, Io5, Io6
  <1>18. IsSteps(Back4) /\ First(Back4) = "op" /\ Then(Back4) = Back5
    BY DEF Word, IsSteps, First, Then, Back4, Back5
  <1>19. IsSteps(Recl6) /\ First(Recl6) = "remove" /\ Then(Recl6) = Look9
    BY DEF Word, IsSteps, First, Then, Recl6, Look9
  <1>20. IsSteps(Part5) /\ First(Part5) = "wait" /\ Then(Part5) = Part6
    BY DEF Word, IsSteps, First, Then, Part5, Part6
  <1>21. IsSteps(Look7) /\ First(Look7) = "eP" /\ Then(Look7) = Look8
    BY DEF Word, IsSteps, First, Then, Look7, Look8
  <1>22. IsSteps(Creat5) /\ First(Creat5) = "bigP" /\ Then(Creat5) = Creat6
    BY DEF Word, IsSteps, First, Then, Creat5, Creat6
  <1>23. IsSteps(Io4) /\ First(Io4) = "eV" /\ Then(Io4) = Io5
    BY DEF Word, IsSteps, First, Then, Io4, Io5
  <1>24. IsSteps(Back3) /\ First(Back3) = "eP" /\ Then(Back3) = Back4
    BY DEF Word, IsSteps, First, Then, Back3, Back4
  <1>25. IsSteps(Undo2) /\ First(Undo2) = "bigV" /\ Then(Undo2) = Io5
    BY DEF Word, IsSteps, First, Then, Undo2, Io5
  <1>26. IsSteps(Recl5) /\ First(Recl5) = "wait" /\ Then(Recl5) = Recl6
    BY DEF Word, IsSteps, First, Then, Recl5, Recl6
  <1>27. IsSteps(Part4) /\ First(Part4) = "op" /\ Then(Part4) = Part5
    BY DEF Word, IsSteps, First, Then, Part4, Part5
  <1>28. IsSteps(Short1) /\ First(Short1) = "bigP" /\ Then(Short1) = Io5
    BY DEF Word, IsSteps, First, Then, Short1, Io5
  <1>29. IsSteps(Look6) /\ First(Look6) = "bigP" /\ Then(Look6) = Look7
    BY DEF Word, IsSteps, First, Then, Look6, Look7
  <1>30. IsSteps(Creat4) /\ First(Creat4) = "eV" /\ Then(Creat4) = Creat5
    BY DEF Word, IsSteps, First, Then, Creat4, Creat5
  <1>31. IsSteps(Io3) /\ First(Io3) = "wait" /\ Then(Io3) = Io4
    BY DEF Word, IsSteps, First, Then, Io3, Io4
  <1>32. IsSteps(Back2) /\ First(Back2) = "bigV" /\ Then(Back2) = Back3
    BY DEF Word, IsSteps, First, Then, Back2, Back3
  <1>33. IsSteps(Undo1) /\ First(Undo1) = "eV" /\ Then(Undo1) = Undo2
    BY DEF Word, IsSteps, First, Then, Undo1, Undo2
  <1>34. IsSteps(Leak1) /\ First(Leak1) = "eV" /\ Then(Leak1) = Back3
    BY DEF Word, IsSteps, First, Then, Leak1, Back3
  <1>35. IsSteps(Recl4) /\ First(Recl4) = "op" /\ Then(Recl4) = Recl5
    BY DEF Word, IsSteps, First, Then, Recl4, Recl5
  <1>36. IsSteps(Part3) /\ First(Part3) = "check" /\ Then(Part3) = Part4
    BY DEF Word, IsSteps, First, Then, Part3, Part4
  <1>37. IsSteps(Look5) /\ First(Look5) = "eV" /\ Then(Look5) = Look6
    BY DEF Word, IsSteps, First, Then, Look5, Look6
  <1>38. IsSteps(Creat3) /\ First(Creat3) = "wait" /\ Then(Creat3) = Creat4
    BY DEF Word, IsSteps, First, Then, Creat3, Creat4
  <1>39. IsSteps(Io2) /\ First(Io2) = "op" /\ Then(Io2) = Io3
    BY DEF Word, IsSteps, First, Then, Io2, Io3
  <1>40. IsSteps(Back1) /\ First(Back1) = "eV" /\ Then(Back1) = Back2
    BY DEF Word, IsSteps, First, Then, Back1, Back2
  <1>41. IsSteps(Recl3) /\ First(Recl3) = "check" /\ Then(Recl3) = Recl4
    BY DEF Word, IsSteps, First, Then, Recl3, Recl4
  <1>42. IsSteps(Part2) /\ First(Part2) = "eP" /\ Then(Part2) = Part3
    BY DEF Word, IsSteps, First, Then, Part2, Part3
  <1>43. IsSteps(Look4) /\ First(Look4) = "wait" /\ Then(Look4) = Look5
    BY DEF Word, IsSteps, First, Then, Look4, Look5
  <1>44. IsSteps(Creat2) /\ First(Creat2) = "op" /\ Then(Creat2) = Creat3
    BY DEF Word, IsSteps, First, Then, Creat2, Creat3
  <1>45. IsSteps(Io1) /\ First(Io1) = "eP" /\ Then(Io1) = Io2
    BY DEF Word, IsSteps, First, Then, Io1, Io2
  <1>46. IsSteps(Recl2) /\ First(Recl2) = "eP" /\ Then(Recl2) = Recl3
    BY DEF Word, IsSteps, First, Then, Recl2, Recl3
  <1>47. IsSteps(Part1) /\ First(Part1) = "bigP" /\ Then(Part1) = Part2
    BY DEF Word, IsSteps, First, Then, Part1, Part2
  <1>48. IsSteps(Look3) /\ First(Look3) = "op" /\ Then(Look3) = Look4
    BY DEF Word, IsSteps, First, Then, Look3, Look4
  <1>49. IsSteps(Creat1) /\ First(Creat1) = "eP" /\ Then(Creat1) = Creat2
    BY DEF Word, IsSteps, First, Then, Creat1, Creat2
  <1>50. IsSteps(Recl1) /\ First(Recl1) = "bigP" /\ Then(Recl1) = Recl2
    BY DEF Word, IsSteps, First, Then, Recl1, Recl2
  <1>51. IsSteps(Look2) /\ First(Look2) = "eP" /\ Then(Look2) = Look3
    BY DEF Word, IsSteps, First, Then, Look2, Look3
  <1>52. IsSteps(Long1) /\ First(Long1) = "bigP" /\ Then(Long1) = Creat1
    BY DEF Word, IsSteps, First, Then, Long1, Creat1
  <1>53. IsSteps(Look1) /\ First(Look1) = "bigP" /\ Then(Look1) = Look2
    BY DEF Word, IsSteps, First, Then, Look1, Look2
  <1> QED
    BY <1>1, <1>2, <1>3, <1>4, <1>5, <1>6, <1>7, <1>8, <1>9, <1>10, <1>11, <1>12, <1>13, <1>14, <1>15, <1>16, <1>17, <1>18, <1>19, <1>20, <1>21, <1>22, <1>23, <1>24, <1>25, <1>26, <1>27, <1>28, <1>29, <1>30, <1>31, <1>32, <1>33, <1>34, <1>35, <1>36, <1>37, <1>38, <1>39, <1>40, <1>41, <1>42, <1>43, <1>44, <1>45, <1>46, <1>47, <1>48, <1>49, <1>50, <1>51, <1>52, <1>53

LEMMA AheadIn ==
  \A s : IsSteps(s) => /\ \A w : Ahead(s, w) <=> First(s) = w \/ Ahead(Then(s), w)
                       /\ LockedIn(s) <=> First(s) = "eV" \/ (First(s) # "eP" /\ LockedIn(Then(s)))
  BY AheadIs, LockedInIs DEF IsSteps, First, Then

\* What is ahead in each list.
LEMMA AheadAre ==
  /\ ~LockedIn(Look11) /\ ~Ahead(Look11, "wait") /\ ~Ahead(Look11, "load") /\ ~Ahead(Look11, "decref") /\ ~Ahead(Look11, "check") /\ ~Ahead(Look11, "remove")
  /\ LockedIn(Io8) /\ ~Ahead(Io8, "wait") /\ ~Ahead(Io8, "load") /\ ~Ahead(Io8, "decref") /\ ~Ahead(Io8, "check") /\ ~Ahead(Io8, "remove")
  /\ ~LockedIn(Try2) /\ Ahead(Try2, "wait") /\ ~Ahead(Try2, "load") /\ ~Ahead(Try2, "decref") /\ ~Ahead(Try2, "check") /\ ~Ahead(Try2, "remove")
  /\ ~LockedIn(Look10) /\ ~Ahead(Look10, "wait") /\ ~Ahead(Look10, "load") /\ ~Ahead(Look10, "decref") /\ ~Ahead(Look10, "check") /\ ~Ahead(Look10, "remove")
  /\ LockedIn(Creat8) /\ ~Ahead(Creat8, "wait") /\ ~Ahead(Creat8, "load") /\ ~Ahead(Creat8, "decref") /\ ~Ahead(Creat8, "check") /\ ~Ahead(Creat8, "remove")
  /\ LockedIn(Io7) /\ Ahead(Io7, "wait") /\ ~Ahead(Io7, "load") /\ ~Ahead(Io7, "decref") /\ ~Ahead(Io7, "check") /\ ~Ahead(Io7, "remove")
  /\ ~LockedIn(Drop2) /\ ~Ahead(Drop2, "wait") /\ ~Ahead(Drop2, "load") /\ Ahead(Drop2, "decref") /\ ~Ahead(Drop2, "check") /\ ~Ahead(Drop2, "remove")
  /\ ~LockedIn(Try1) /\ Ahead(Try1, "wait") /\ ~Ahead(Try1, "load") /\ ~Ahead(Try1, "decref") /\ ~Ahead(Try1, "check") /\ ~Ahead(Try1, "remove")
  /\ LockedIn(Look9) /\ ~Ahead(Look9, "wait") /\ ~Ahead(Look9, "load") /\ ~Ahead(Look9, "decref") /\ ~Ahead(Look9, "check") /\ ~Ahead(Look9, "remove")
  /\ LockedIn(Creat7) /\ ~Ahead(Creat7, "wait") /\ Ahead(Creat7, "load") /\ ~Ahead(Creat7, "decref") /\ ~Ahead(Creat7, "check") /\ ~Ahead(Creat7, "remove")
  /\ LockedIn(Io6) /\ Ahead(Io6, "wait") /\ ~Ahead(Io6, "load") /\ ~Ahead(Io6, "decref") /\ ~Ahead(Io6, "check") /\ ~Ahead(Io6, "remove")
  /\ LockedIn(Back5) /\ Ahead(Back5, "wait") /\ ~Ahead(Back5, "load") /\ ~Ahead(Back5, "decref") /\ ~Ahead(Back5, "check") /\ ~Ahead(Back5, "remove")
  /\ ~LockedIn(Drop1) /\ ~Ahead(Drop1, "wait") /\ ~Ahead(Drop1, "load") /\ Ahead(Drop1, "decref") /\ ~Ahead(Drop1, "check") /\ ~Ahead(Drop1, "remove")
  /\ LockedIn(Part6) /\ ~Ahead(Part6, "wait") /\ ~Ahead(Part6, "load") /\ ~Ahead(Part6, "decref") /\ ~Ahead(Part6, "check") /\ Ahead(Part6, "remove")
  /\ LockedIn(Look8) /\ ~Ahead(Look8, "wait") /\ Ahead(Look8, "load") /\ ~Ahead(Look8, "decref") /\ ~Ahead(Look8, "check") /\ ~Ahead(Look8, "remove")
  /\ ~LockedIn(Creat6) /\ ~Ahead(Creat6, "wait") /\ Ahead(Creat6, "load") /\ ~Ahead(Creat6, "decref") /\ ~Ahead(Creat6, "check") /\ ~Ahead(Creat6, "remove")
  /\ ~LockedIn(Io5) /\ Ahead(Io5, "wait") /\ ~Ahead(Io5, "load") /\ ~Ahead(Io5, "decref") /\ ~Ahead(Io5, "check") /\ ~Ahead(Io5, "remove")
  /\ LockedIn(Back4) /\ Ahead(Back4, "wait") /\ ~Ahead(Back4, "load") /\ ~Ahead(Back4, "decref") /\ ~Ahead(Back4, "check") /\ ~Ahead(Back4, "remove")
  /\ LockedIn(Recl6) /\ ~Ahead(Recl6, "wait") /\ ~Ahead(Recl6, "load") /\ ~Ahead(Recl6, "decref") /\ ~Ahead(Recl6, "check") /\ Ahead(Recl6, "remove")
  /\ LockedIn(Part5) /\ Ahead(Part5, "wait") /\ ~Ahead(Part5, "load") /\ ~Ahead(Part5, "decref") /\ ~Ahead(Part5, "check") /\ Ahead(Part5, "remove")
  /\ ~LockedIn(Look7) /\ ~Ahead(Look7, "wait") /\ Ahead(Look7, "load") /\ ~Ahead(Look7, "decref") /\ ~Ahead(Look7, "check") /\ ~Ahead(Look7, "remove")
  /\ ~LockedIn(Creat5) /\ ~Ahead(Creat5, "wait") /\ Ahead(Creat5, "load") /\ ~Ahead(Creat5, "decref") /\ ~Ahead(Creat5, "check") /\ ~Ahead(Creat5, "remove")
  /\ LockedIn(Io4) /\ Ahead(Io4, "wait") /\ ~Ahead(Io4, "load") /\ ~Ahead(Io4, "decref") /\ ~Ahead(Io4, "check") /\ ~Ahead(Io4, "remove")
  /\ ~LockedIn(Back3) /\ Ahead(Back3, "wait") /\ ~Ahead(Back3, "load") /\ ~Ahead(Back3, "decref") /\ ~Ahead(Back3, "check") /\ ~Ahead(Back3, "remove")
  /\ ~LockedIn(Undo2) /\ Ahead(Undo2, "wait") /\ ~Ahead(Undo2, "load") /\ ~Ahead(Undo2, "decref") /\ ~Ahead(Undo2, "check") /\ ~Ahead(Undo2, "remove")
  /\ LockedIn(Recl5) /\ Ahead(Recl5, "wait") /\ ~Ahead(Recl5, "load") /\ ~Ahead(Recl5, "decref") /\ ~Ahead(Recl5, "check") /\ Ahead(Recl5, "remove")
  /\ LockedIn(Part4) /\ Ahead(Part4, "wait") /\ ~Ahead(Part4, "load") /\ ~Ahead(Part4, "decref") /\ ~Ahead(Part4, "check") /\ Ahead(Part4, "remove")
  /\ ~LockedIn(Short1) /\ Ahead(Short1, "wait") /\ ~Ahead(Short1, "load") /\ ~Ahead(Short1, "decref") /\ ~Ahead(Short1, "check") /\ ~Ahead(Short1, "remove")
  /\ ~LockedIn(Look6) /\ ~Ahead(Look6, "wait") /\ Ahead(Look6, "load") /\ ~Ahead(Look6, "decref") /\ ~Ahead(Look6, "check") /\ ~Ahead(Look6, "remove")
  /\ LockedIn(Creat4) /\ ~Ahead(Creat4, "wait") /\ Ahead(Creat4, "load") /\ ~Ahead(Creat4, "decref") /\ ~Ahead(Creat4, "check") /\ ~Ahead(Creat4, "remove")
  /\ LockedIn(Io3) /\ Ahead(Io3, "wait") /\ ~Ahead(Io3, "load") /\ ~Ahead(Io3, "decref") /\ ~Ahead(Io3, "check") /\ ~Ahead(Io3, "remove")
  /\ ~LockedIn(Back2) /\ Ahead(Back2, "wait") /\ ~Ahead(Back2, "load") /\ ~Ahead(Back2, "decref") /\ ~Ahead(Back2, "check") /\ ~Ahead(Back2, "remove")
  /\ LockedIn(Undo1) /\ Ahead(Undo1, "wait") /\ ~Ahead(Undo1, "load") /\ ~Ahead(Undo1, "decref") /\ ~Ahead(Undo1, "check") /\ ~Ahead(Undo1, "remove")
  /\ LockedIn(Leak1) /\ Ahead(Leak1, "wait") /\ ~Ahead(Leak1, "load") /\ ~Ahead(Leak1, "decref") /\ ~Ahead(Leak1, "check") /\ ~Ahead(Leak1, "remove")
  /\ LockedIn(Recl4) /\ Ahead(Recl4, "wait") /\ ~Ahead(Recl4, "load") /\ ~Ahead(Recl4, "decref") /\ ~Ahead(Recl4, "check") /\ Ahead(Recl4, "remove")
  /\ LockedIn(Part3) /\ Ahead(Part3, "wait") /\ ~Ahead(Part3, "load") /\ ~Ahead(Part3, "decref") /\ Ahead(Part3, "check") /\ Ahead(Part3, "remove")
  /\ LockedIn(Look5) /\ ~Ahead(Look5, "wait") /\ Ahead(Look5, "load") /\ ~Ahead(Look5, "decref") /\ ~Ahead(Look5, "check") /\ ~Ahead(Look5, "remove")
  /\ LockedIn(Creat3) /\ Ahead(Creat3, "wait") /\ Ahead(Creat3, "load") /\ ~Ahead(Creat3, "decref") /\ ~Ahead(Creat3, "check") /\ ~Ahead(Creat3, "remove")
  /\ LockedIn(Io2) /\ Ahead(Io2, "wait") /\ ~Ahead(Io2, "load") /\ ~Ahead(Io2, "decref") /\ ~Ahead(Io2, "check") /\ ~Ahead(Io2, "remove")
  /\ LockedIn(Back1) /\ Ahead(Back1, "wait") /\ ~Ahead(Back1, "load") /\ ~Ahead(Back1, "decref") /\ ~Ahead(Back1, "check") /\ ~Ahead(Back1, "remove")
  /\ LockedIn(Recl3) /\ Ahead(Recl3, "wait") /\ ~Ahead(Recl3, "load") /\ ~Ahead(Recl3, "decref") /\ Ahead(Recl3, "check") /\ Ahead(Recl3, "remove")
  /\ ~LockedIn(Part2) /\ Ahead(Part2, "wait") /\ ~Ahead(Part2, "load") /\ ~Ahead(Part2, "decref") /\ Ahead(Part2, "check") /\ Ahead(Part2, "remove")
  /\ LockedIn(Look4) /\ Ahead(Look4, "wait") /\ Ahead(Look4, "load") /\ ~Ahead(Look4, "decref") /\ ~Ahead(Look4, "check") /\ ~Ahead(Look4, "remove")
  /\ LockedIn(Creat2) /\ Ahead(Creat2, "wait") /\ Ahead(Creat2, "load") /\ ~Ahead(Creat2, "decref") /\ ~Ahead(Creat2, "check") /\ ~Ahead(Creat2, "remove")
  /\ ~LockedIn(Io1) /\ Ahead(Io1, "wait") /\ ~Ahead(Io1, "load") /\ ~Ahead(Io1, "decref") /\ ~Ahead(Io1, "check") /\ ~Ahead(Io1, "remove")
  /\ ~LockedIn(Recl2) /\ Ahead(Recl2, "wait") /\ ~Ahead(Recl2, "load") /\ ~Ahead(Recl2, "decref") /\ Ahead(Recl2, "check") /\ Ahead(Recl2, "remove")
  /\ ~LockedIn(Part1) /\ Ahead(Part1, "wait") /\ ~Ahead(Part1, "load") /\ ~Ahead(Part1, "decref") /\ Ahead(Part1, "check") /\ Ahead(Part1, "remove")
  /\ LockedIn(Look3) /\ Ahead(Look3, "wait") /\ Ahead(Look3, "load") /\ ~Ahead(Look3, "decref") /\ ~Ahead(Look3, "check") /\ ~Ahead(Look3, "remove")
  /\ ~LockedIn(Creat1) /\ Ahead(Creat1, "wait") /\ Ahead(Creat1, "load") /\ ~Ahead(Creat1, "decref") /\ ~Ahead(Creat1, "check") /\ ~Ahead(Creat1, "remove")
  /\ ~LockedIn(Recl1) /\ Ahead(Recl1, "wait") /\ ~Ahead(Recl1, "load") /\ ~Ahead(Recl1, "decref") /\ Ahead(Recl1, "check") /\ Ahead(Recl1, "remove")
  /\ ~LockedIn(Look2) /\ Ahead(Look2, "wait") /\ Ahead(Look2, "load") /\ ~Ahead(Look2, "decref") /\ ~Ahead(Look2, "check") /\ ~Ahead(Look2, "remove")
  /\ ~LockedIn(Long1) /\ Ahead(Long1, "wait") /\ Ahead(Long1, "load") /\ ~Ahead(Long1, "decref") /\ ~Ahead(Long1, "check") /\ ~Ahead(Long1, "remove")
  /\ ~LockedIn(Look1) /\ Ahead(Look1, "wait") /\ Ahead(Look1, "load") /\ ~Ahead(Look1, "decref") /\ ~Ahead(Look1, "check") /\ ~Ahead(Look1, "remove")
  <1>1. ~LockedIn(Look11) /\ ~Ahead(Look11, "wait") /\ ~Ahead(Look11, "load") /\ ~Ahead(Look11, "decref") /\ ~Ahead(Look11, "check") /\ ~Ahead(Look11, "remove")
    <2>1. IsSteps(Look11) /\ First(Look11) = "bigV" /\ Then(Look11) = Empty
      BY StepsAre
    <2> QED
      BY <2>1, NothingAhead, AheadIn
  <1>2. LockedIn(Io8) /\ ~Ahead(Io8, "wait") /\ ~Ahead(Io8, "load") /\ ~Ahead(Io8, "decref") /\ ~Ahead(Io8, "check") /\ ~Ahead(Io8, "remove")
    <2>1. IsSteps(Io8) /\ First(Io8) = "eV" /\ Then(Io8) = Empty
      BY StepsAre
    <2> QED
      BY <2>1, NothingAhead, AheadIn
  <1>3. ~LockedIn(Try2) /\ Ahead(Try2, "wait") /\ ~Ahead(Try2, "load") /\ ~Ahead(Try2, "decref") /\ ~Ahead(Try2, "check") /\ ~Ahead(Try2, "remove")
    <2>1. IsSteps(Try2) /\ First(Try2) = "wait" /\ Then(Try2) = Empty
      BY StepsAre
    <2> QED
      BY <2>1, NothingAhead, AheadIn
  <1>4. ~LockedIn(Look10) /\ ~Ahead(Look10, "wait") /\ ~Ahead(Look10, "load") /\ ~Ahead(Look10, "decref") /\ ~Ahead(Look10, "check") /\ ~Ahead(Look10, "remove")
    <2>1. IsSteps(Look10) /\ First(Look10) = "bigV" /\ Then(Look10) = Look11
      BY StepsAre
    <2> QED
      BY <2>1, <1>1, AheadIn
  <1>5. LockedIn(Creat8) /\ ~Ahead(Creat8, "wait") /\ ~Ahead(Creat8, "load") /\ ~Ahead(Creat8, "decref") /\ ~Ahead(Creat8, "check") /\ ~Ahead(Creat8, "remove")
    <2>1. IsSteps(Creat8) /\ First(Creat8) = "eV" /\ Then(Creat8) = Look11
      BY StepsAre
    <2> QED
      BY <2>1, <1>1, AheadIn
  <1>6. LockedIn(Io7) /\ Ahead(Io7, "wait") /\ ~Ahead(Io7, "load") /\ ~Ahead(Io7, "decref") /\ ~Ahead(Io7, "check") /\ ~Ahead(Io7, "remove")
    <2>1. IsSteps(Io7) /\ First(Io7) = "wait" /\ Then(Io7) = Io8
      BY StepsAre
    <2> QED
      BY <2>1, <1>2, AheadIn
  <1>7. ~LockedIn(Drop2) /\ ~Ahead(Drop2, "wait") /\ ~Ahead(Drop2, "load") /\ Ahead(Drop2, "decref") /\ ~Ahead(Drop2, "check") /\ ~Ahead(Drop2, "remove")
    <2>1. IsSteps(Drop2) /\ First(Drop2) = "decref" /\ Then(Drop2) = Look11
      BY StepsAre
    <2> QED
      BY <2>1, <1>1, AheadIn
  <1>8. ~LockedIn(Try1) /\ Ahead(Try1, "wait") /\ ~Ahead(Try1, "load") /\ ~Ahead(Try1, "decref") /\ ~Ahead(Try1, "check") /\ ~Ahead(Try1, "remove")
    <2>1. IsSteps(Try1) /\ First(Try1) = "op" /\ Then(Try1) = Try2
      BY StepsAre
    <2> QED
      BY <2>1, <1>3, AheadIn
  <1>9. LockedIn(Look9) /\ ~Ahead(Look9, "wait") /\ ~Ahead(Look9, "load") /\ ~Ahead(Look9, "decref") /\ ~Ahead(Look9, "check") /\ ~Ahead(Look9, "remove")
    <2>1. IsSteps(Look9) /\ First(Look9) = "eV" /\ Then(Look9) = Look10
      BY StepsAre
    <2> QED
      BY <2>1, <1>4, AheadIn
  <1>10. LockedIn(Creat7) /\ ~Ahead(Creat7, "wait") /\ Ahead(Creat7, "load") /\ ~Ahead(Creat7, "decref") /\ ~Ahead(Creat7, "check") /\ ~Ahead(Creat7, "remove")
    <2>1. IsSteps(Creat7) /\ First(Creat7) = "load" /\ Then(Creat7) = Creat8
      BY StepsAre
    <2> QED
      BY <2>1, <1>5, AheadIn
  <1>11. LockedIn(Io6) /\ Ahead(Io6, "wait") /\ ~Ahead(Io6, "load") /\ ~Ahead(Io6, "decref") /\ ~Ahead(Io6, "check") /\ ~Ahead(Io6, "remove")
    <2>1. IsSteps(Io6) /\ First(Io6) = "op" /\ Then(Io6) = Io7
      BY StepsAre
    <2> QED
      BY <2>1, <1>6, AheadIn
  <1>12. LockedIn(Back5) /\ Ahead(Back5, "wait") /\ ~Ahead(Back5, "load") /\ ~Ahead(Back5, "decref") /\ ~Ahead(Back5, "check") /\ ~Ahead(Back5, "remove")
    <2>1. IsSteps(Back5) /\ First(Back5) = "wait" /\ Then(Back5) = Creat8
      BY StepsAre
    <2> QED
      BY <2>1, <1>5, AheadIn
  <1>13. ~LockedIn(Drop1) /\ ~Ahead(Drop1, "wait") /\ ~Ahead(Drop1, "load") /\ Ahead(Drop1, "decref") /\ ~Ahead(Drop1, "check") /\ ~Ahead(Drop1, "remove")
    <2>1. IsSteps(Drop1) /\ First(Drop1) = "bigP" /\ Then(Drop1) = Drop2
      BY StepsAre
    <2> QED
      BY <2>1, <1>7, AheadIn
  <1>14. LockedIn(Part6) /\ ~Ahead(Part6, "wait") /\ ~Ahead(Part6, "load") /\ ~Ahead(Part6, "decref") /\ ~Ahead(Part6, "check") /\ Ahead(Part6, "remove")
    <2>1. IsSteps(Part6) /\ First(Part6) = "remove" /\ Then(Part6) = Creat8
      BY StepsAre
    <2> QED
      BY <2>1, <1>5, AheadIn
  <1>15. LockedIn(Look8) /\ ~Ahead(Look8, "wait") /\ Ahead(Look8, "load") /\ ~Ahead(Look8, "decref") /\ ~Ahead(Look8, "check") /\ ~Ahead(Look8, "remove")
    <2>1. IsSteps(Look8) /\ First(Look8) = "load" /\ Then(Look8) = Look9
      BY StepsAre
    <2> QED
      BY <2>1, <1>9, AheadIn
  <1>16. ~LockedIn(Creat6) /\ ~Ahead(Creat6, "wait") /\ Ahead(Creat6, "load") /\ ~Ahead(Creat6, "decref") /\ ~Ahead(Creat6, "check") /\ ~Ahead(Creat6, "remove")
    <2>1. IsSteps(Creat6) /\ First(Creat6) = "eP" /\ Then(Creat6) = Creat7
      BY StepsAre
    <2> QED
      BY <2>1, <1>10, AheadIn
  <1>17. ~LockedIn(Io5) /\ Ahead(Io5, "wait") /\ ~Ahead(Io5, "load") /\ ~Ahead(Io5, "decref") /\ ~Ahead(Io5, "check") /\ ~Ahead(Io5, "remove")
    <2>1. IsSteps(Io5) /\ First(Io5) = "eP" /\ Then(Io5) = Io6
      BY StepsAre
    <2> QED
      BY <2>1, <1>11, AheadIn
  <1>18. LockedIn(Back4) /\ Ahead(Back4, "wait") /\ ~Ahead(Back4, "load") /\ ~Ahead(Back4, "decref") /\ ~Ahead(Back4, "check") /\ ~Ahead(Back4, "remove")
    <2>1. IsSteps(Back4) /\ First(Back4) = "op" /\ Then(Back4) = Back5
      BY StepsAre
    <2> QED
      BY <2>1, <1>12, AheadIn
  <1>19. LockedIn(Recl6) /\ ~Ahead(Recl6, "wait") /\ ~Ahead(Recl6, "load") /\ ~Ahead(Recl6, "decref") /\ ~Ahead(Recl6, "check") /\ Ahead(Recl6, "remove")
    <2>1. IsSteps(Recl6) /\ First(Recl6) = "remove" /\ Then(Recl6) = Look9
      BY StepsAre
    <2> QED
      BY <2>1, <1>9, AheadIn
  <1>20. LockedIn(Part5) /\ Ahead(Part5, "wait") /\ ~Ahead(Part5, "load") /\ ~Ahead(Part5, "decref") /\ ~Ahead(Part5, "check") /\ Ahead(Part5, "remove")
    <2>1. IsSteps(Part5) /\ First(Part5) = "wait" /\ Then(Part5) = Part6
      BY StepsAre
    <2> QED
      BY <2>1, <1>14, AheadIn
  <1>21. ~LockedIn(Look7) /\ ~Ahead(Look7, "wait") /\ Ahead(Look7, "load") /\ ~Ahead(Look7, "decref") /\ ~Ahead(Look7, "check") /\ ~Ahead(Look7, "remove")
    <2>1. IsSteps(Look7) /\ First(Look7) = "eP" /\ Then(Look7) = Look8
      BY StepsAre
    <2> QED
      BY <2>1, <1>15, AheadIn
  <1>22. ~LockedIn(Creat5) /\ ~Ahead(Creat5, "wait") /\ Ahead(Creat5, "load") /\ ~Ahead(Creat5, "decref") /\ ~Ahead(Creat5, "check") /\ ~Ahead(Creat5, "remove")
    <2>1. IsSteps(Creat5) /\ First(Creat5) = "bigP" /\ Then(Creat5) = Creat6
      BY StepsAre
    <2> QED
      BY <2>1, <1>16, AheadIn
  <1>23. LockedIn(Io4) /\ Ahead(Io4, "wait") /\ ~Ahead(Io4, "load") /\ ~Ahead(Io4, "decref") /\ ~Ahead(Io4, "check") /\ ~Ahead(Io4, "remove")
    <2>1. IsSteps(Io4) /\ First(Io4) = "eV" /\ Then(Io4) = Io5
      BY StepsAre
    <2> QED
      BY <2>1, <1>17, AheadIn
  <1>24. ~LockedIn(Back3) /\ Ahead(Back3, "wait") /\ ~Ahead(Back3, "load") /\ ~Ahead(Back3, "decref") /\ ~Ahead(Back3, "check") /\ ~Ahead(Back3, "remove")
    <2>1. IsSteps(Back3) /\ First(Back3) = "eP" /\ Then(Back3) = Back4
      BY StepsAre
    <2> QED
      BY <2>1, <1>18, AheadIn
  <1>25. ~LockedIn(Undo2) /\ Ahead(Undo2, "wait") /\ ~Ahead(Undo2, "load") /\ ~Ahead(Undo2, "decref") /\ ~Ahead(Undo2, "check") /\ ~Ahead(Undo2, "remove")
    <2>1. IsSteps(Undo2) /\ First(Undo2) = "bigV" /\ Then(Undo2) = Io5
      BY StepsAre
    <2> QED
      BY <2>1, <1>17, AheadIn
  <1>26. LockedIn(Recl5) /\ Ahead(Recl5, "wait") /\ ~Ahead(Recl5, "load") /\ ~Ahead(Recl5, "decref") /\ ~Ahead(Recl5, "check") /\ Ahead(Recl5, "remove")
    <2>1. IsSteps(Recl5) /\ First(Recl5) = "wait" /\ Then(Recl5) = Recl6
      BY StepsAre
    <2> QED
      BY <2>1, <1>19, AheadIn
  <1>27. LockedIn(Part4) /\ Ahead(Part4, "wait") /\ ~Ahead(Part4, "load") /\ ~Ahead(Part4, "decref") /\ ~Ahead(Part4, "check") /\ Ahead(Part4, "remove")
    <2>1. IsSteps(Part4) /\ First(Part4) = "op" /\ Then(Part4) = Part5
      BY StepsAre
    <2> QED
      BY <2>1, <1>20, AheadIn
  <1>28. ~LockedIn(Short1) /\ Ahead(Short1, "wait") /\ ~Ahead(Short1, "load") /\ ~Ahead(Short1, "decref") /\ ~Ahead(Short1, "check") /\ ~Ahead(Short1, "remove")
    <2>1. IsSteps(Short1) /\ First(Short1) = "bigP" /\ Then(Short1) = Io5
      BY StepsAre
    <2> QED
      BY <2>1, <1>17, AheadIn
  <1>29. ~LockedIn(Look6) /\ ~Ahead(Look6, "wait") /\ Ahead(Look6, "load") /\ ~Ahead(Look6, "decref") /\ ~Ahead(Look6, "check") /\ ~Ahead(Look6, "remove")
    <2>1. IsSteps(Look6) /\ First(Look6) = "bigP" /\ Then(Look6) = Look7
      BY StepsAre
    <2> QED
      BY <2>1, <1>21, AheadIn
  <1>30. LockedIn(Creat4) /\ ~Ahead(Creat4, "wait") /\ Ahead(Creat4, "load") /\ ~Ahead(Creat4, "decref") /\ ~Ahead(Creat4, "check") /\ ~Ahead(Creat4, "remove")
    <2>1. IsSteps(Creat4) /\ First(Creat4) = "eV" /\ Then(Creat4) = Creat5
      BY StepsAre
    <2> QED
      BY <2>1, <1>22, AheadIn
  <1>31. LockedIn(Io3) /\ Ahead(Io3, "wait") /\ ~Ahead(Io3, "load") /\ ~Ahead(Io3, "decref") /\ ~Ahead(Io3, "check") /\ ~Ahead(Io3, "remove")
    <2>1. IsSteps(Io3) /\ First(Io3) = "wait" /\ Then(Io3) = Io4
      BY StepsAre
    <2> QED
      BY <2>1, <1>23, AheadIn
  <1>32. ~LockedIn(Back2) /\ Ahead(Back2, "wait") /\ ~Ahead(Back2, "load") /\ ~Ahead(Back2, "decref") /\ ~Ahead(Back2, "check") /\ ~Ahead(Back2, "remove")
    <2>1. IsSteps(Back2) /\ First(Back2) = "bigV" /\ Then(Back2) = Back3
      BY StepsAre
    <2> QED
      BY <2>1, <1>24, AheadIn
  <1>33. LockedIn(Undo1) /\ Ahead(Undo1, "wait") /\ ~Ahead(Undo1, "load") /\ ~Ahead(Undo1, "decref") /\ ~Ahead(Undo1, "check") /\ ~Ahead(Undo1, "remove")
    <2>1. IsSteps(Undo1) /\ First(Undo1) = "eV" /\ Then(Undo1) = Undo2
      BY StepsAre
    <2> QED
      BY <2>1, <1>25, AheadIn
  <1>34. LockedIn(Leak1) /\ Ahead(Leak1, "wait") /\ ~Ahead(Leak1, "load") /\ ~Ahead(Leak1, "decref") /\ ~Ahead(Leak1, "check") /\ ~Ahead(Leak1, "remove")
    <2>1. IsSteps(Leak1) /\ First(Leak1) = "eV" /\ Then(Leak1) = Back3
      BY StepsAre
    <2> QED
      BY <2>1, <1>24, AheadIn
  <1>35. LockedIn(Recl4) /\ Ahead(Recl4, "wait") /\ ~Ahead(Recl4, "load") /\ ~Ahead(Recl4, "decref") /\ ~Ahead(Recl4, "check") /\ Ahead(Recl4, "remove")
    <2>1. IsSteps(Recl4) /\ First(Recl4) = "op" /\ Then(Recl4) = Recl5
      BY StepsAre
    <2> QED
      BY <2>1, <1>26, AheadIn
  <1>36. LockedIn(Part3) /\ Ahead(Part3, "wait") /\ ~Ahead(Part3, "load") /\ ~Ahead(Part3, "decref") /\ Ahead(Part3, "check") /\ Ahead(Part3, "remove")
    <2>1. IsSteps(Part3) /\ First(Part3) = "check" /\ Then(Part3) = Part4
      BY StepsAre
    <2> QED
      BY <2>1, <1>27, AheadIn
  <1>37. LockedIn(Look5) /\ ~Ahead(Look5, "wait") /\ Ahead(Look5, "load") /\ ~Ahead(Look5, "decref") /\ ~Ahead(Look5, "check") /\ ~Ahead(Look5, "remove")
    <2>1. IsSteps(Look5) /\ First(Look5) = "eV" /\ Then(Look5) = Look6
      BY StepsAre
    <2> QED
      BY <2>1, <1>29, AheadIn
  <1>38. LockedIn(Creat3) /\ Ahead(Creat3, "wait") /\ Ahead(Creat3, "load") /\ ~Ahead(Creat3, "decref") /\ ~Ahead(Creat3, "check") /\ ~Ahead(Creat3, "remove")
    <2>1. IsSteps(Creat3) /\ First(Creat3) = "wait" /\ Then(Creat3) = Creat4
      BY StepsAre
    <2> QED
      BY <2>1, <1>30, AheadIn
  <1>39. LockedIn(Io2) /\ Ahead(Io2, "wait") /\ ~Ahead(Io2, "load") /\ ~Ahead(Io2, "decref") /\ ~Ahead(Io2, "check") /\ ~Ahead(Io2, "remove")
    <2>1. IsSteps(Io2) /\ First(Io2) = "op" /\ Then(Io2) = Io3
      BY StepsAre
    <2> QED
      BY <2>1, <1>31, AheadIn
  <1>40. LockedIn(Back1) /\ Ahead(Back1, "wait") /\ ~Ahead(Back1, "load") /\ ~Ahead(Back1, "decref") /\ ~Ahead(Back1, "check") /\ ~Ahead(Back1, "remove")
    <2>1. IsSteps(Back1) /\ First(Back1) = "eV" /\ Then(Back1) = Back2
      BY StepsAre
    <2> QED
      BY <2>1, <1>32, AheadIn
  <1>41. LockedIn(Recl3) /\ Ahead(Recl3, "wait") /\ ~Ahead(Recl3, "load") /\ ~Ahead(Recl3, "decref") /\ Ahead(Recl3, "check") /\ Ahead(Recl3, "remove")
    <2>1. IsSteps(Recl3) /\ First(Recl3) = "check" /\ Then(Recl3) = Recl4
      BY StepsAre
    <2> QED
      BY <2>1, <1>35, AheadIn
  <1>42. ~LockedIn(Part2) /\ Ahead(Part2, "wait") /\ ~Ahead(Part2, "load") /\ ~Ahead(Part2, "decref") /\ Ahead(Part2, "check") /\ Ahead(Part2, "remove")
    <2>1. IsSteps(Part2) /\ First(Part2) = "eP" /\ Then(Part2) = Part3
      BY StepsAre
    <2> QED
      BY <2>1, <1>36, AheadIn
  <1>43. LockedIn(Look4) /\ Ahead(Look4, "wait") /\ Ahead(Look4, "load") /\ ~Ahead(Look4, "decref") /\ ~Ahead(Look4, "check") /\ ~Ahead(Look4, "remove")
    <2>1. IsSteps(Look4) /\ First(Look4) = "wait" /\ Then(Look4) = Look5
      BY StepsAre
    <2> QED
      BY <2>1, <1>37, AheadIn
  <1>44. LockedIn(Creat2) /\ Ahead(Creat2, "wait") /\ Ahead(Creat2, "load") /\ ~Ahead(Creat2, "decref") /\ ~Ahead(Creat2, "check") /\ ~Ahead(Creat2, "remove")
    <2>1. IsSteps(Creat2) /\ First(Creat2) = "op" /\ Then(Creat2) = Creat3
      BY StepsAre
    <2> QED
      BY <2>1, <1>38, AheadIn
  <1>45. ~LockedIn(Io1) /\ Ahead(Io1, "wait") /\ ~Ahead(Io1, "load") /\ ~Ahead(Io1, "decref") /\ ~Ahead(Io1, "check") /\ ~Ahead(Io1, "remove")
    <2>1. IsSteps(Io1) /\ First(Io1) = "eP" /\ Then(Io1) = Io2
      BY StepsAre
    <2> QED
      BY <2>1, <1>39, AheadIn
  <1>46. ~LockedIn(Recl2) /\ Ahead(Recl2, "wait") /\ ~Ahead(Recl2, "load") /\ ~Ahead(Recl2, "decref") /\ Ahead(Recl2, "check") /\ Ahead(Recl2, "remove")
    <2>1. IsSteps(Recl2) /\ First(Recl2) = "eP" /\ Then(Recl2) = Recl3
      BY StepsAre
    <2> QED
      BY <2>1, <1>41, AheadIn
  <1>47. ~LockedIn(Part1) /\ Ahead(Part1, "wait") /\ ~Ahead(Part1, "load") /\ ~Ahead(Part1, "decref") /\ Ahead(Part1, "check") /\ Ahead(Part1, "remove")
    <2>1. IsSteps(Part1) /\ First(Part1) = "bigP" /\ Then(Part1) = Part2
      BY StepsAre
    <2> QED
      BY <2>1, <1>42, AheadIn
  <1>48. LockedIn(Look3) /\ Ahead(Look3, "wait") /\ Ahead(Look3, "load") /\ ~Ahead(Look3, "decref") /\ ~Ahead(Look3, "check") /\ ~Ahead(Look3, "remove")
    <2>1. IsSteps(Look3) /\ First(Look3) = "op" /\ Then(Look3) = Look4
      BY StepsAre
    <2> QED
      BY <2>1, <1>43, AheadIn
  <1>49. ~LockedIn(Creat1) /\ Ahead(Creat1, "wait") /\ Ahead(Creat1, "load") /\ ~Ahead(Creat1, "decref") /\ ~Ahead(Creat1, "check") /\ ~Ahead(Creat1, "remove")
    <2>1. IsSteps(Creat1) /\ First(Creat1) = "eP" /\ Then(Creat1) = Creat2
      BY StepsAre
    <2> QED
      BY <2>1, <1>44, AheadIn
  <1>50. ~LockedIn(Recl1) /\ Ahead(Recl1, "wait") /\ ~Ahead(Recl1, "load") /\ ~Ahead(Recl1, "decref") /\ Ahead(Recl1, "check") /\ Ahead(Recl1, "remove")
    <2>1. IsSteps(Recl1) /\ First(Recl1) = "bigP" /\ Then(Recl1) = Recl2
      BY StepsAre
    <2> QED
      BY <2>1, <1>46, AheadIn
  <1>51. ~LockedIn(Look2) /\ Ahead(Look2, "wait") /\ Ahead(Look2, "load") /\ ~Ahead(Look2, "decref") /\ ~Ahead(Look2, "check") /\ ~Ahead(Look2, "remove")
    <2>1. IsSteps(Look2) /\ First(Look2) = "eP" /\ Then(Look2) = Look3
      BY StepsAre
    <2> QED
      BY <2>1, <1>48, AheadIn
  <1>52. ~LockedIn(Long1) /\ Ahead(Long1, "wait") /\ Ahead(Long1, "load") /\ ~Ahead(Long1, "decref") /\ ~Ahead(Long1, "check") /\ ~Ahead(Long1, "remove")
    <2>1. IsSteps(Long1) /\ First(Long1) = "bigP" /\ Then(Long1) = Creat1
      BY StepsAre
    <2> QED
      BY <2>1, <1>49, AheadIn
  <1>53. ~LockedIn(Look1) /\ Ahead(Look1, "wait") /\ Ahead(Look1, "load") /\ ~Ahead(Look1, "decref") /\ ~Ahead(Look1, "check") /\ ~Ahead(Look1, "remove")
    <2>1. IsSteps(Look1) /\ First(Look1) = "bigP" /\ Then(Look1) = Look2
      BY StepsAre
    <2> QED
      BY <2>1, <1>51, AheadIn
  <1> QED
    BY <1>1, <1>2, <1>3, <1>4, <1>5, <1>6, <1>7, <1>8, <1>9, <1>10, <1>11, <1>12, <1>13, <1>14, <1>15, <1>16, <1>17, <1>18, <1>19, <1>20, <1>21, <1>22, <1>23, <1>24, <1>25, <1>26, <1>27, <1>28, <1>29, <1>30, <1>31, <1>32, <1>33, <1>34, <1>35, <1>36, <1>37, <1>38, <1>39, <1>40, <1>41, <1>42, <1>43, <1>44, <1>45, <1>46, <1>47, <1>48, <1>49, <1>50, <1>51, <1>52, <1>53

\* Lists put together.
LEMMA CatStep ==
  ASSUME NEW p, NEW x, NEW r, IsSteps(p), IsSteps(x), IsSteps(r), First(p) = First(r),
         (Then(p) = Empty /\ x = Then(r)) \/ Cat(Then(p), x) = Then(r)
  PROVE  Cat(p, x) = r
  <1> DEFINE q == Tail(p)
  <1>1. p \in Seq(Word) /\ x \in Seq(Word) /\ r \in Seq(Word) /\ p # <<>> /\ r # <<>> /\ Head(p) = Head(r)
    BY DEF IsSteps, First
  <1>2. q \in Seq(Word)
    BY <1>1
  <1>3. <<>> \o x = x
    BY <1>1, ConcatEmptySeq
  <1>4. q \o x = Tail(r)
    BY <1>3 DEF Then, Cat, Empty
  <1>5. /\ Len(p) \in Nat /\ Len(p) >= 1 /\ Len(r) \in Nat /\ Len(r) >= 1 /\ Len(x) \in Nat
        /\ Len(q) = Len(p) - 1 /\ Len(Tail(r)) = Len(r) - 1
        /\ \A i \in 1..(Len(p) - 1) : q[i] = p[i + 1]
        /\ \A i \in 1..(Len(r) - 1) : Tail(r)[i] = r[i + 1]
        /\ p[1] = r[1]
    BY <1>1
  <1>6. /\ p \o x \in Seq(Word) /\ Len(p \o x) = Len(p) + Len(x)
        /\ \A i \in 1..(Len(p) + Len(x)) : (p \o x)[i] = IF i <= Len(p) THEN p[i] ELSE x[i - Len(p)]
    BY <1>1, ConcatProperties
  <1>7. /\ Len(q \o x) = Len(q) + Len(x)
        /\ \A i \in 1..(Len(q) + Len(x)) : (q \o x)[i] = IF i <= Len(q) THEN q[i] ELSE x[i - Len(q)]
    BY <1>1, <1>2, ConcatProperties
  <1> DEFINE y == p \o x  z == q \o x  t == Tail(r)
  <1> HIDE DEF y, z, q, t
  <1>8. Len(y) = Len(r) /\ y \in Seq(Word)
    BY <1>4, <1>5, <1>6, <1>7 DEF y, z, t
  <1>9. ASSUME NEW i \in 1..Len(r)
        PROVE  y[i] = r[i]
    <2>1. CASE i = 1
      BY <1>5, <1>6, <2>1 DEF y
    <2>2. CASE i # 1
      <3> DEFINE j == i - 1
      <3>1. j \in 1..(Len(r) - 1) /\ i = j + 1 /\ j \in Int
        BY <1>5, <2>2
      <3>2. t[j] = r[i]
        BY <1>5, <3>1 DEF t
      <3>3. z[j] = IF j <= Len(q) THEN q[j] ELSE x[j - Len(q)]
        BY <1>4, <1>5, <1>7, <3>1 DEF z
      <3>4. y[i] = IF i <= Len(p) THEN p[i] ELSE x[i - Len(p)]
        BY <1>5, <1>6, <1>8 DEF y
      <3>5. (j <= Len(q) <=> i <= Len(p)) /\ j - Len(q) = i - Len(p)
        BY <1>5, <3>1
      <3>6. i <= Len(p) => q[j] = p[i]
        BY <1>5, <3>1
      <3>7. z = t
        BY <1>4 DEF z, t
      <3> QED
        BY <3>2, <3>3, <3>4, <3>5, <3>6, <3>7
    <2> QED
      BY <2>1, <2>2
  <1>10. y = r
    BY <1>1, <1>8, <1>9, SeqEqual
  <1> QED
    BY <1>10 DEF y, Cat

LEMMA CatAre ==
  /\ Cat(Io8, Look11) = Creat8
  /\ Cat(Io7, Look11) = Back5
  /\ Cat(Io6, Look11) = Back4
  /\ Cat(Io5, Look11) = Back3
  /\ Cat(Io4, Look11) = Leak1
  /\ Cat(Undo2, Look11) = Back2
  /\ Cat(Undo1, Look11) = Back1
  /\ Cat(Io8, Io5) = Io4
  /\ Cat(Io7, Io5) = Io3
  /\ Cat(Io6, Io5) = Io2
  /\ Cat(Io5, Io5) = Io1
  /\ Cat(Look11, Io5) = Undo2
  /\ Cat(Creat8, Io5) = Undo1
  /\ Cat(Try2, Creat8) = Back5
  /\ Cat(Try1, Creat8) = Back4
  /\ Cat(Try2, Io8) = Io7
  /\ Cat(Try1, Io8) = Io6
  /\ Cat(Try2, Recl6) = Recl5
  /\ Cat(Try1, Recl6) = Recl4
  /\ Cat(Look11, Look11) = Look10
  /\ Cat(Creat8, Look11) = Look9
  /\ Cat(Part6, Look11) = Recl6
  /\ Cat(Part5, Look11) = Recl5
  /\ Cat(Part4, Look11) = Recl4
  /\ Cat(Part3, Look11) = Recl3
  /\ Cat(Part2, Look11) = Recl2
  /\ Cat(Part1, Look11) = Recl1
  /\ Cat(Io8, Creat5) = Creat4
  /\ Cat(Io7, Creat5) = Creat3
  /\ Cat(Io6, Creat5) = Creat2
  /\ Cat(Io5, Creat5) = Creat1
  /\ Cat(Creat7, Look11) = Look8
  /\ Cat(Creat6, Look11) = Look7
  /\ Cat(Creat5, Look11) = Look6
  /\ Cat(Creat4, Look11) = Look5
  /\ Cat(Creat3, Look11) = Look4
  /\ Cat(Creat2, Look11) = Look3
  /\ Cat(Creat1, Look11) = Look2
  /\ Cat(Short1, Creat5) = Long1
  /\ Cat(Long1, Look11) = Look1
  <1>1. Cat(Io8, Look11) = Creat8
    BY StepsAre, CatStep
  <1>2. Cat(Io7, Look11) = Back5
    BY <1>1, StepsAre, CatStep
  <1>3. Cat(Io6, Look11) = Back4
    BY <1>2, StepsAre, CatStep
  <1>4. Cat(Io5, Look11) = Back3
    BY <1>3, StepsAre, CatStep
  <1>5. Cat(Io4, Look11) = Leak1
    BY <1>4, StepsAre, CatStep
  <1>6. Cat(Undo2, Look11) = Back2
    BY <1>4, StepsAre, CatStep
  <1>7. Cat(Undo1, Look11) = Back1
    BY <1>6, StepsAre, CatStep
  <1>8. Cat(Io8, Io5) = Io4
    BY StepsAre, CatStep
  <1>9. Cat(Io7, Io5) = Io3
    BY <1>8, StepsAre, CatStep
  <1>10. Cat(Io6, Io5) = Io2
    BY <1>9, StepsAre, CatStep
  <1>11. Cat(Io5, Io5) = Io1
    BY <1>10, StepsAre, CatStep
  <1>12. Cat(Look11, Io5) = Undo2
    BY StepsAre, CatStep
  <1>13. Cat(Creat8, Io5) = Undo1
    BY <1>12, StepsAre, CatStep
  <1>14. Cat(Try2, Creat8) = Back5
    BY StepsAre, CatStep
  <1>15. Cat(Try1, Creat8) = Back4
    BY <1>14, StepsAre, CatStep
  <1>16. Cat(Try2, Io8) = Io7
    BY StepsAre, CatStep
  <1>17. Cat(Try1, Io8) = Io6
    BY <1>16, StepsAre, CatStep
  <1>18. Cat(Try2, Recl6) = Recl5
    BY StepsAre, CatStep
  <1>19. Cat(Try1, Recl6) = Recl4
    BY <1>18, StepsAre, CatStep
  <1>20. Cat(Look11, Look11) = Look10
    BY StepsAre, CatStep
  <1>21. Cat(Creat8, Look11) = Look9
    BY <1>20, StepsAre, CatStep
  <1>22. Cat(Part6, Look11) = Recl6
    BY <1>21, StepsAre, CatStep
  <1>23. Cat(Part5, Look11) = Recl5
    BY <1>22, StepsAre, CatStep
  <1>24. Cat(Part4, Look11) = Recl4
    BY <1>23, StepsAre, CatStep
  <1>25. Cat(Part3, Look11) = Recl3
    BY <1>24, StepsAre, CatStep
  <1>26. Cat(Part2, Look11) = Recl2
    BY <1>25, StepsAre, CatStep
  <1>27. Cat(Part1, Look11) = Recl1
    BY <1>26, StepsAre, CatStep
  <1>28. Cat(Io8, Creat5) = Creat4
    BY StepsAre, CatStep
  <1>29. Cat(Io7, Creat5) = Creat3
    BY <1>28, StepsAre, CatStep
  <1>30. Cat(Io6, Creat5) = Creat2
    BY <1>29, StepsAre, CatStep
  <1>31. Cat(Io5, Creat5) = Creat1
    BY <1>30, StepsAre, CatStep
  <1>32. Cat(Creat7, Look11) = Look8
    BY <1>21, StepsAre, CatStep
  <1>33. Cat(Creat6, Look11) = Look7
    BY <1>32, StepsAre, CatStep
  <1>34. Cat(Creat5, Look11) = Look6
    BY <1>33, StepsAre, CatStep
  <1>35. Cat(Creat4, Look11) = Look5
    BY <1>34, StepsAre, CatStep
  <1>36. Cat(Creat3, Look11) = Look4
    BY <1>35, StepsAre, CatStep
  <1>37. Cat(Creat2, Look11) = Look3
    BY <1>36, StepsAre, CatStep
  <1>38. Cat(Creat1, Look11) = Look2
    BY <1>37, StepsAre, CatStep
  <1>39. Cat(Short1, Creat5) = Long1
    BY <1>31, StepsAre, CatStep
  <1>40. Cat(Long1, Look11) = Look1
    BY <1>38, StepsAre, CatStep
  <1> QED
    BY <1>1, <1>2, <1>3, <1>4, <1>5, <1>6, <1>7, <1>8, <1>9, <1>10, <1>11, <1>12, <1>13, <1>14, <1>15, <1>16, <1>17, <1>18, <1>19, <1>20, <1>21, <1>22, <1>23, <1>24, <1>25, <1>26, <1>27, <1>28, <1>29, <1>30, <1>31, <1>32, <1>33, <1>34, <1>35, <1>36, <1>37, <1>38, <1>39, <1>40

-----------------------------------------------------------------------------
(* The steps of a call *)

LEMMA StepsNotEmpty == \A s : IsSteps(s) => s # Empty
  BY DEF IsSteps, Empty

\* A call that does a step goes on with one of its lists.
LEMMA FitsNext ==
  ASSUME NEW cmd, NEW s, NEW outer, Fits(cmd, s, outer), s # Empty
  PROVE  /\ IsSteps(s) /\ cmd # "none" /\ First(s) \in Word
         /\ Then(s) = Empty \/ (IsSteps(Then(s)) /\ Fits(cmd, Then(s), outer))
  <1>1. CASE cmd = "open" /\ outer = <<"bigV">> /\ Looking(s)
    BY <1>1, StepsAre DEF Looking, Fits, Word
  <1>2. CASE cmd = "open" /\ outer = <<>> /\ Creating(s)
    BY <1>2, StepsAre DEF Creating, Fits, Word
  <1>3. CASE cmd = "io" /\ Moving(s)
    BY <1>3, StepsAre DEF Moving, Fits, Word
  <1>4. CASE cmd = "close" /\ Returning(s)
    BY <1>4, StepsAre DEF Returning, Fits, Word
  <1>5. CASE cmd = "close" /\ outer = <<"bigV">> /\ Dropping(s)
    BY <1>5, StepsAre DEF Dropping, Fits, Word
  <1> QED
    BY <1>1, <1>2, <1>3, <1>4, <1>5 DEF Fits, Empty

\* The steps between eP and eV, and those that are not.
LEMMA LockFits ==
  ASSUME NEW cmd, NEW s, NEW outer, Fits(cmd, s, outer), s # Empty
  PROVE  /\ First(s) \in {"op", "wait", "load", "check", "remove"} => LockedIn(s) /\ LockedIn(Then(s))
         /\ First(s) = "eV" => LockedIn(s) /\ ~LockedIn(Then(s))
         /\ First(s) = "eP" => ~LockedIn(s) /\ LockedIn(Then(s))
         /\ First(s) \in {"bigP", "bigV", "decref"} => ~LockedIn(s) /\ ~LockedIn(Then(s))
  <1>1. CASE Looking(s)
    BY <1>1, StepsAre, AheadAre, NothingAhead DEF Looking
  <1>2. CASE Creating(s)
    BY <1>2, StepsAre, AheadAre, NothingAhead DEF Creating
  <1>3. CASE Moving(s)
    BY <1>3, StepsAre, AheadAre, NothingAhead DEF Moving
  <1>4. CASE Returning(s)
    BY <1>4, StepsAre, AheadAre, NothingAhead DEF Returning
  <1>5. CASE Dropping(s)
    BY <1>5, StepsAre, AheadAre, NothingAhead DEF Dropping
  <1> QED
    BY <1>1, <1>2, <1>3, <1>4, <1>5 DEF Fits, Empty

\* A step that is none of these changes nothing of what is ahead.
Telling == {"wait", "load", "decref", "check", "remove"}

LEMMA AheadSame ==
  ASSUME NEW s, IsSteps(s), First(s) \notin Telling
  PROVE  \A w \in Telling : Ahead(Then(s), w) <=> Ahead(s, w)
  BY AheadIn DEF Telling

\* A call that gives back its locks and ends.
Ending(cmd, r, outer) ==
    /\ IsSteps(r) /\ r # Empty /\ First(r) = "eV" /\ Fits(cmd, r, outer) /\ LockedIn(r)
    /\ \A w \in Telling : ~Ahead(r, w)

LEMMA EndingAre ==
  ASSUME NEW cmd, NEW outer, NEW r \in {Creat8, Io8, Look9}, Fits(cmd, r, outer)
  PROVE  Ending(cmd, r, outer)
  BY StepsAre, AheadAre, StepsNotEmpty DEF Telling, Ending

\* Opening a file fails.
LEMMA OpenFits ==
  ASSUME NEW s, NEW outer, Fits("open", s, outer), s # Empty, First(s) = "wait"
  PROVE  /\ Then(s) # Empty /\ Ahead(s, "load") /\ Ahead(Then(s), "load") /\ ~Ahead(Then(s), "wait")
         /\ Ending("open", <<"eV">> \o outer, outer)
  <1>1. CASE outer = <<"bigV">> /\ Looking(s)
    <2>1. <<"eV">> \o outer = Creat8
      <3>1. <<"eV">> \o outer = Cat(Io8, Look11)
        BY <1>1 DEF Cat, Io8, Look11
      <3> QED
        BY <3>1, CatAre
    <2>2. s = Look4
      BY <1>1, StepsAre DEF Looking
    <2>3. Ending("open", Creat8, outer)
      <3>1. Fits("open", Creat8, outer)
        BY <1>1 DEF Fits, Looking
      <3> QED
        BY <3>1, EndingAre
    <2>4. Then(s) # Empty /\ Ahead(s, "load") /\ Ahead(Then(s), "load") /\ ~Ahead(Then(s), "wait")
      BY <2>2, StepsAre, AheadAre, StepsNotEmpty
    <2> QED
      BY <2>1, <2>3, <2>4, Zenon
  <1>2. CASE outer = <<>> /\ Creating(s)
    <2>1. <<"eV">> \o outer = Io8
      <3>1. <<"eV">> \o <<>> = <<"eV">>
        <4>1. <<"eV">> \in Seq(Word)
          BY DEF Word
        <4> QED
          BY <4>1, ConcatEmptySeq
      <3> QED
        BY <1>2, <3>1 DEF Io8
    <2>2. s = Creat3
      BY <1>2, StepsAre DEF Creating
    <2>3. Ending("open", Io8, outer)
      <3>1. Fits("open", Io8, outer)
        BY <1>2 DEF Fits, Creating
      <3> QED
        BY <3>1, EndingAre
    <2>4. Then(s) # Empty /\ Ahead(s, "load") /\ Ahead(Then(s), "load") /\ ~Ahead(Then(s), "wait")
      BY <2>2, StepsAre, AheadAre, StepsNotEmpty
    <2> QED
      BY <2>1, <2>3, <2>4, Zenon
  <1> QED
    BY <1>1, <1>2 DEF Fits

\* A close is answered, and fails for good.
LEMMA CloseFits ==
  ASSUME NEW s, NEW outer, Fits("close", s, outer), s # Empty, First(s) = "wait"
  PROVE  /\ Then(s) # Empty /\ ~Ahead(Then(s), "wait")
         /\ ~Ahead(s, "load") /\ ~Ahead(s, "decref") /\ ~Ahead(s, "check")
         /\ ~Ahead(Then(s), "load") /\ ~Ahead(Then(s), "decref") /\ ~Ahead(Then(s), "check")
         /\ Ahead(s, "remove") <=> First(Then(s)) = "remove"
         /\ Ahead(Then(s), "remove") <=> First(Then(s)) = "remove"
         /\ First(Then(s)) = "remove" =>
               /\ Then(Then(s)) # Empty /\ Fits("close", Then(Then(s)), outer) /\ LockedIn(Then(Then(s)))
               /\ IsSteps(Then(Then(s))) /\ First(Then(Then(s))) = "eV"
               /\ \A w \in Telling : ~Ahead(Then(Then(s)), w)
  <1>1. CASE Returning(s)
    <2>1. s = Back5 \/ s = Io7
      BY <1>1, StepsAre DEF Returning
    <2> QED
      BY <2>1, StepsAre, AheadAre, StepsNotEmpty
  <1>2. CASE outer = <<"bigV">> /\ Dropping(s)
    <2>1. s = Recl5
      BY <1>2, StepsAre DEF Dropping
    <2>2. Fits("close", Look9, outer)
      BY <1>2 DEF Fits, Dropping
    <2> QED
      BY <2>1, <2>2, StepsAre, AheadAre, StepsNotEmpty DEF Telling
  <1> QED
    BY <1>1, <1>2 DEF Fits

\* A close that is tried again.
Again(s, r, outer) ==
    /\ IsSteps(r) /\ r # Empty /\ Fits("close", r, outer) /\ LockedIn(r) /\ First(r) = "op"
    /\ \A w \in Telling : Ahead(r, w) <=> Ahead(s, w)

LEMMA RetryFits ==
  ASSUME NEW s, NEW outer, Fits("close", s, outer), s # Empty, First(s) = "wait"
  PROVE  Again(s, <<"op", "wait">> \o Then(s), outer)
  <1>1. <<"op", "wait">> \o Then(s) = Cat(Try1, Then(s))
    BY DEF Cat, Try1
  <1>2. Again(s, Cat(Try1, Then(s)), outer)
    <2>1. CASE Returning(s)
      <3>1. s = Back5 \/ s = Io7
        BY <2>1, StepsAre DEF Returning
      <3>2. Fits("close", Back4, outer) /\ Fits("close", Io6, outer)
        BY DEF Fits, Returning
      <3> QED
        BY <3>1, <3>2, CatAre, StepsAre, AheadAre, StepsNotEmpty DEF Telling, Again
    <2>2. CASE Dropping(s) /\ outer = <<"bigV">>
      <3>1. s = Recl5
        BY <2>2, StepsAre DEF Dropping
      <3>2. Fits("close", Recl4, outer)
        BY <2>2 DEF Fits, Dropping
      <3> QED
        BY <3>1, <3>2, CatAre, StepsAre, AheadAre, StepsNotEmpty DEF Telling, Again
    <2> QED
      BY <2>1, <2>2 DEF Fits
  <1> QED
    BY <1>1, <1>2, Zenon

\* A transfer that fails.
LEMMA IoFits ==
  ASSUME NEW outer
  PROVE  Ending("io", <<"eV">>, outer)
  <1>1. <<"eV">> = Io8
    BY DEF Io8
  <1>2. Ending("io", Io8, outer)
    <2>1. Fits("io", Io8, outer)
      BY DEF Fits, Moving
    <2> QED
      BY <2>1, EndingAre
  <1> QED
    BY <1>1, <1>2, Zenon

\* Closing what could not be loaded.
Closes(r, outer) ==
    /\ IsSteps(r) /\ r # Empty /\ Fits("close", r, outer) /\ LockedIn(r) /\ Ahead(r, "wait")
    /\ ~Ahead(r, "load") /\ ~Ahead(r, "decref") /\ ~Ahead(r, "check") /\ ~Ahead(r, "remove")
    /\ First(r) = "eV"

LEMMA LoadFits ==
  ASSUME NEW cmd, NEW s, NEW outer, Fits(cmd, s, outer), s # Empty, First(s) = "load"
  PROVE  /\ cmd = "open" /\ Ahead(s, "load") /\ ~Ahead(s, "wait") /\ Then(s) # Empty
         /\ \A w \in Telling : ~Ahead(Then(s), w)
         /\ Closes(<<"eV">> \o emu_close \o outer, outer)
         /\ Closes(<<"eV", "bigV">> \o emu_close \o outer, outer)
  <1>1. CASE cmd = "open" /\ outer = <<"bigV">> /\ Looking(s)
    <2>1. <<"eV">> \o emu_close \o outer = Leak1 /\ <<"eV", "bigV">> \o emu_close \o outer = Back1
      <3>1. /\ <<"eV">> \o emu_close \o outer = Cat(Cat(Io8, Io5), Look11)
            /\ <<"eV", "bigV">> \o emu_close \o outer = Cat(Cat(Creat8, Io5), Look11)
        BY <1>1 DEF Cat, Io8, Io5, Look11, Creat8, emu_close
      <3>2. Cat(Cat(Io8, Io5), Look11) = Leak1 /\ Cat(Cat(Creat8, Io5), Look11) = Back1
        BY CatAre
      <3> QED
        BY <3>1, <3>2, Zenon
    <2>2. s = Look8
      BY <1>1, StepsAre DEF Looking
    <2>3. Closes(Leak1, outer) /\ Closes(Back1, outer)
      BY StepsAre, AheadAre, StepsNotEmpty DEF Fits, Returning, Closes
    <2>4. Ahead(s, "load") /\ ~Ahead(s, "wait") /\ Then(s) # Empty /\ \A w \in Telling : ~Ahead(Then(s), w)
      BY <2>2, StepsAre, AheadAre, StepsNotEmpty DEF Telling
    <2> QED
      BY <1>1, <2>1, <2>3, <2>4, Zenon
  <1>2. CASE cmd = "open" /\ outer = <<>> /\ Creating(s)
    <2>1. <<"eV">> \o emu_close \o outer = Io4 /\ <<"eV", "bigV">> \o emu_close \o outer = Undo1
      <3>1. /\ <<"eV">> \o emu_close \o outer = Cat(Cat(Io8, Io5), <<>>)
            /\ <<"eV", "bigV">> \o emu_close \o outer = Cat(Cat(Creat8, Io5), <<>>)
        BY <1>2 DEF Cat, Io8, Io5, Creat8, emu_close
      <3>2. Cat(Io4, <<>>) = Io4 /\ Cat(Undo1, <<>>) = Undo1
        <4>1. Io4 \in Seq(Word) /\ Undo1 \in Seq(Word)
          BY StepsAre DEF IsSteps
        <4> QED
          BY <4>1, ConcatEmptySeq DEF Cat
      <3>3. Cat(Io8, Io5) = Io4 /\ Cat(Creat8, Io5) = Undo1
        BY CatAre
      <3> QED
        BY <3>1, <3>2, <3>3, Zenon
    <2>2. s = Creat7
      BY <1>2, StepsAre DEF Creating
    <2>3. Closes(Io4, outer) /\ Closes(Undo1, outer)
      BY StepsAre, AheadAre, StepsNotEmpty DEF Fits, Returning, Closes
    <2>4. Ahead(s, "load") /\ ~Ahead(s, "wait") /\ Then(s) # Empty /\ \A w \in Telling : ~Ahead(Then(s), w)
      BY <2>2, StepsAre, AheadAre, StepsNotEmpty DEF Telling
    <2> QED
      BY <1>2, <2>1, <2>3, <2>4, Zenon
  <1>3. ~Moving(s) /\ ~Returning(s) /\ ~Dropping(s)
    BY StepsAre DEF Moving, Returning, Dropping
  <1> QED
    BY <1>1, <1>2, <1>3 DEF Fits, Empty

\* The last reference is given up.
LastOf(r, outer) ==
    /\ IsSteps(r) /\ r # Empty /\ Fits("close", r, outer) /\ ~LockedIn(r) /\ First(r) = "bigP"
    /\ Ahead(r, "check") /\ Ahead(r, "remove") /\ ~Ahead(r, "load")

LEMMA DropFits ==
  ASSUME NEW cmd, NEW s, NEW outer, Fits(cmd, s, outer), s # Empty
  PROVE  /\ First(s) = "decref" =>
               /\ cmd = "close" /\ Ahead(s, "decref") /\ Then(s) # Empty /\ \A w \in Telling : ~Ahead(Then(s), w)
               /\ ~Ahead(s, "wait") /\ ~Ahead(s, "remove") /\ ~Ahead(s, "load") /\ LastOf(emufs_reclaim \o Then(s), outer)
         /\ First(s) = "check" =>
               /\ cmd = "close" /\ Ahead(s, "remove") /\ Ahead(s, "check") /\ Then(s) # Empty
               /\ Ahead(Then(s), "remove") /\ ~Ahead(Then(s), "check") /\ ~Ahead(Then(s), "load") /\ First(Then(s)) = "op"
               /\ Ending("close", <<"eV", "bigV">> \o outer, outer)
         /\ First(s) = "remove" =>
               /\ cmd = "close" /\ Ahead(s, "remove") /\ ~Ahead(s, "check") /\ Then(s) # Empty /\ First(Then(s)) = "eV"
               /\ \A w \in Telling : ~Ahead(Then(s), w)
  <1>1. CASE cmd = "close" /\ outer = <<"bigV">> /\ Dropping(s)
    <2>1. <<"eV", "bigV">> \o outer = Look9
      <3>1. <<"eV", "bigV">> \o outer = Cat(Creat8, Look11)
        BY <1>1 DEF Cat, Creat8, Look11
      <3> QED
        BY <3>1, CatAre
    <2>2. (First(s) = "decref" => s = Drop2) /\ (First(s) = "check" => s = Recl3) /\ (First(s) = "remove" => s = Recl6)
      BY <1>1, StepsAre DEF Dropping
    <2>6. s = Drop2 => emufs_reclaim \o Then(s) = Recl1
      <3>1. emufs_reclaim \o Then(s) = Cat(Part1, Then(s))
        BY DEF Cat, Part1, emufs_reclaim
      <3>2. s = Drop2 => Cat(Part1, Then(s)) = Recl1
        BY CatAre, StepsAre
      <3> QED
        BY <3>1, <3>2, Zenon
    <2>7. Fits("close", Recl1, outer) /\ Fits("close", Look9, outer)
      BY <1>1 DEF Fits, Dropping
    <2>8. LastOf(Recl1, outer) /\ Ending("close", Look9, outer)
      BY <2>7, EndingAre, StepsAre, AheadAre, StepsNotEmpty DEF LastOf
    <2>3. CASE First(s) = "decref"
      <3>1. /\ Ahead(s, "decref") /\ Then(s) # Empty /\ \A w \in Telling : ~Ahead(Then(s), w)
            /\ ~Ahead(s, "wait") /\ ~Ahead(s, "remove") /\ ~Ahead(s, "load")
        BY <2>2, <2>3, StepsAre, AheadAre, StepsNotEmpty DEF Telling
      <3>2. LastOf(emufs_reclaim \o Then(s), outer)
        BY <2>2, <2>3, <2>6, <2>8, Zenon
      <3>3. First(s) # "check" /\ First(s) # "remove"
        BY <2>3
      <3> QED
        BY <1>1, <3>1, <3>2, <3>3, Zenon
    <2>4. CASE First(s) = "check"
      <3>1. /\ Ahead(s, "remove") /\ Ahead(s, "check") /\ Then(s) # Empty
            /\ Ahead(Then(s), "remove") /\ ~Ahead(Then(s), "check") /\ ~Ahead(Then(s), "load") /\ First(Then(s)) = "op"
        BY <2>2, <2>4, StepsAre, AheadAre, StepsNotEmpty
      <3>2. Ending("close", <<"eV", "bigV">> \o outer, outer)
        BY <2>1, <2>8, Zenon
      <3>3. First(s) # "decref" /\ First(s) # "remove"
        BY <2>4
      <3> QED
        BY <1>1, <3>1, <3>2, <3>3, Zenon
    <2>5. CASE First(s) = "remove"
      <3>1. /\ Ahead(s, "remove") /\ ~Ahead(s, "check") /\ Then(s) # Empty /\ First(Then(s)) = "eV"
            /\ \A w \in Telling : ~Ahead(Then(s), w)
        BY <2>2, <2>5, StepsAre, AheadAre, StepsNotEmpty DEF Telling
      <3>3. First(s) # "decref" /\ First(s) # "check"
        BY <2>5
      <3> QED
        BY <1>1, <3>1, <3>3, Zenon
    <2> QED
      BY <2>3, <2>4, <2>5, Zenon
  <1>2. CASE Looking(s) \/ Creating(s) \/ Moving(s) \/ Returning(s)
    <2>1. First(s) # "decref" /\ First(s) # "check" /\ First(s) # "remove"
      BY <1>2, StepsAre DEF Looking, Creating, Moving, Returning
    <2> QED
      BY <2>1, Zenon
  <1>3. (cmd = "close" /\ outer = <<"bigV">> /\ Dropping(s)) \/ Looking(s) \/ Creating(s) \/ Moving(s) \/ Returning(s)
    BY DEF Fits, Empty
  <1> QED
    BY <1>1, <1>2, <1>3, Zenon

\* How calls begin.
Starts(c, s, cmd, h, outer) == c \in CallRec /\ c.todo = s /\ c.cmd = cmd /\ c.h = h /\ c.outer = outer

LEMMA BeginFits ==
  /\ Starts(emufs_lookup, Look1, "open", EMU_ROOTHANDLE, <<"bigV">>)
  /\ Starts(emufs_creat, Creat1, "open", EMU_ROOTHANDLE, <<>>)
  /\ \A h \in Handle0 :
        /\ Starts(EmuStat(h), Io5, "io", h, <<>>)
        /\ Starts(EmuIo(h, 1), Io5, "io", h, <<>>)
        /\ Starts(EmuIo(h, 2), Io1, "io", h, <<>>)
        /\ Starts(VOP_DECREF(h), Drop1, "close", h, <<"bigV">>)
  <1>1. <<"bigP">> \o emu_open \o emufs_loadvnode \o <<"bigV">> = Look1
    <2>1. <<"bigP">> \o emu_open \o emufs_loadvnode \o <<"bigV">> = Cat(Cat(Cat(<<"bigP">>, Io5), Creat5), Look11)
      BY DEF Cat, emu_open, emufs_loadvnode, Io5, Creat5, Look11
    <2>2. Cat(<<"bigP">>, Io5) = Short1
      <3> DEFINE p == <<"bigP">>
      <3>1. IsSteps(p) /\ First(p) = "bigP" /\ Then(p) = Empty
        BY DEF IsSteps, First, Then, Empty, Word
      <3> HIDE DEF p
      <3>2. Cat(p, Io5) = Short1
        BY <3>1, StepsAre, CatStep
      <3> QED
        BY <3>2 DEF p
    <2> QED
      BY <2>1, <2>2, CatAre
  <1>2. emu_open \o emufs_loadvnode = Creat1
    <2>1. emu_open \o emufs_loadvnode = Cat(Io5, Creat5)
      BY DEF Cat, emu_open, emufs_loadvnode, Io5, Creat5
    <2> QED
      BY <2>1, CatAre
  <1>3. emu_doread = Io5 /\ emu_doread \o emu_doread = Io1 /\ <<"bigP", "decref", "bigV">> = Drop1
    <2>1. emu_doread = Io5 /\ emu_doread \o emu_doread = Cat(Io5, Io5) /\ <<"bigP", "decref", "bigV">> = Drop1
      BY DEF Cat, emu_doread, Io5, Drop1
    <2> QED
      BY <2>1, CatAre
  <1> DEFINE S == Seq(Word)
  <1>12. <<>> \in S /\ <<"bigV">> \in S /\ EMU_ROOTHANDLE \in Handle0 /\ \A s : IsSteps(s) => s \in S
    BY DEF Word, Handle0, IsSteps
  <1> HIDE DEF S
  <1>13. ASSUME NEW e, e = <<>>, NEW a \in S, NEW b \in {"open", "io", "close"}, NEW c \in Handle0, NEW d \in S
         PROVE  /\ Starts([NoCall EXCEPT !.todo = a, !.cmd = b, !.outer = d], a, b, EMU_ROOTHANDLE, d)
                /\ Starts([NoCall EXCEPT !.todo = a, !.cmd = b], a, b, EMU_ROOTHANDLE, e)
                /\ Starts([NoCall EXCEPT !.todo = a, !.cmd = b, !.h = c], a, b, c, e)
                /\ Starts([NoCall EXCEPT !.todo = a, !.cmd = b, !.h = c, !.outer = d], a, b, c, d)
    <2>1. NoCall = [todo |-> e, cmd |-> "none", h |-> EMU_ROOTHANDLE, outer |-> e, tries |-> 0] /\ e \in S
      BY <1>13, <1>12 DEF NoCall
    <2>2. CallRec = [todo : S, cmd : {"none", "open", "io", "close"}, h : Handle0, outer : S, tries : Nat]
      BY DEF CallRec, S
    <2>3. EMU_ROOTHANDLE \in Handle0
      BY <1>12
    <2> QED
      BY <2>1, <2>2, <2>3 DEF Starts
  <1>21. ASSUME NEW a \in S, NEW c \in Handle0
         PROVE  Starts([NoCall EXCEPT !.todo = a, !.cmd = "io", !.h = c], a, "io", c, <<>>)
    BY <1>12, <1>13
  <1>22. ASSUME NEW a \in S, NEW c \in Handle0, NEW d \in S
         PROVE  Starts([NoCall EXCEPT !.todo = a, !.cmd = "close", !.h = c, !.outer = d], a, "close", c, d)
    BY <1>12, <1>13
  <1>14. Look1 \in S /\ Creat1 \in S /\ Io5 \in S /\ Io1 \in S /\ Drop1 \in S
    BY <1>12, StepsAre
  <1>15. "open" \in {"open", "io", "close"} /\ "io" \in {"open", "io", "close"} /\ "close" \in {"open", "io", "close"}
    OBVIOUS
  <1>16. emufs_lookup = [NoCall EXCEPT !.todo = Look1, !.cmd = "open", !.outer = <<"bigV">>]
    BY <1>1, Zenon DEF emufs_lookup
  <1>17. emufs_creat = [NoCall EXCEPT !.todo = Creat1, !.cmd = "open"]
    BY <1>2, Zenon DEF emufs_creat
  <1>18. ASSUME NEW h
         PROVE  /\ EmuStat(h) = [NoCall EXCEPT !.todo = Io5, !.cmd = "io", !.h = h]
                /\ EmuIo(h, 1) = [NoCall EXCEPT !.todo = Io5, !.cmd = "io", !.h = h]
                /\ EmuIo(h, 2) = [NoCall EXCEPT !.todo = Io1, !.cmd = "io", !.h = h]
                /\ VOP_DECREF(h) = [NoCall EXCEPT !.todo = Drop1, !.cmd = "close", !.h = h, !.outer = <<"bigV">>]
    <2>1. EmuStat(h) = [NoCall EXCEPT !.todo = Io5, !.cmd = "io", !.h = h]
      BY <1>3, Zenon DEF EmuStat
    <2>2. EmuIo(h, 1) = [NoCall EXCEPT !.todo = emu_doread, !.cmd = "io", !.h = h]
      BY DEF EmuIo
    <2>3. EmuIo(h, 2) = [NoCall EXCEPT !.todo = emu_doread \o emu_doread, !.cmd = "io", !.h = h]
      BY DEF EmuIo
    <2>5. VOP_DECREF(h) = [NoCall EXCEPT !.todo = Drop1, !.cmd = "close", !.h = h, !.outer = <<"bigV">>]
      BY <1>3, Zenon DEF VOP_DECREF
    <2> QED
      BY <1>3, <2>1, <2>2, <2>3, <2>5, Zenon
  <1>19. Starts(emufs_lookup, Look1, "open", EMU_ROOTHANDLE, <<"bigV">>) /\ Starts(emufs_creat, Creat1, "open", EMU_ROOTHANDLE, <<>>)
    BY <1>12, <1>13, <1>14, <1>15, <1>16, <1>17, Zenon
  <1>20. ASSUME NEW h \in Handle0
         PROVE  /\ Starts(EmuStat(h), Io5, "io", h, <<>>)
                /\ Starts(EmuIo(h, 1), Io5, "io", h, <<>>)
                /\ Starts(EmuIo(h, 2), Io1, "io", h, <<>>)
                /\ Starts(VOP_DECREF(h), Drop1, "close", h, <<"bigV">>)
    <2>1. EmuStat(h) = [NoCall EXCEPT !.todo = Io5, !.cmd = "io", !.h = h] /\ EmuIo(h, 1) = EmuStat(h)
      BY <1>18, Zenon
    <2>2. EmuIo(h, 2) = [NoCall EXCEPT !.todo = Io1, !.cmd = "io", !.h = h]
      BY <1>18, Zenon
    <2>3. VOP_DECREF(h) = [NoCall EXCEPT !.todo = Drop1, !.cmd = "close", !.h = h, !.outer = <<"bigV">>]
      BY <1>18, Zenon
    <2>4. Starts(EmuStat(h), Io5, "io", h, <<>>)
      BY <1>12, <1>14, <1>21, <2>1, Zenon
    <2>5. Starts(EmuIo(h, 2), Io1, "io", h, <<>>)
      BY <1>12, <1>14, <1>21, <2>2, Zenon
    <2>6. Starts(VOP_DECREF(h), Drop1, "close", h, <<"bigV">>)
      BY <1>12, <1>14, <1>22, <2>3, Zenon
    <2> QED
      BY <2>1, <2>4, <2>5, <2>6, Zenon
  <1> QED
    BY <1>19, <1>20, Zenon

LEMMA ReclaimFits ==
  ASSUME NEW cmd, NEW s, NEW outer, Fits(cmd, s, outer), cmd = "close", Ahead(s, "remove"), ~Ahead(s, "check")
  PROVE  /\ LockedIn(s) /\ ~Ahead(s, "decref") /\ ~Ahead(s, "load") /\ s # Empty /\ First(s) \in {"op", "wait", "remove"}
         /\ outer = <<"bigV">>
  <1>1. ~Returning(s)
    BY AheadAre DEF Returning
  <1>2. Dropping(s) /\ outer = <<"bigV">>
    BY <1>1 DEF Fits
  <1> QED
    BY <1>2, StepsAre, AheadAre, StepsNotEmpty DEF Dropping

LEMMA OpFits ==
  ASSUME NEW cmd, NEW s, NEW outer, Fits(cmd, s, outer), s # Empty, First(s) = "op"
  PROVE  Then(s) # Empty /\ First(Then(s)) = "wait"
  <1>1. CASE Looking(s)
    BY <1>1, StepsAre, StepsNotEmpty DEF Looking
  <1>2. CASE Creating(s)
    BY <1>2, StepsAre, StepsNotEmpty DEF Creating
  <1>3. CASE Moving(s)
    BY <1>3, StepsAre, StepsNotEmpty DEF Moving
  <1>4. CASE Returning(s)
    BY <1>4, StepsAre, StepsNotEmpty DEF Returning
  <1>5. CASE Dropping(s)
    BY <1>5, StepsAre, StepsNotEmpty DEF Dropping
  <1> QED
    BY <1>1, <1>2, <1>3, <1>4, <1>5 DEF Fits, Empty
-----------------------------------------------------------------------------
(* Calls that go on *)

LEMMA AtIs ==
  /\ \A t, w : At(t, w) <=> call[t].todo # Empty /\ First(call[t].todo) = w
  /\ \A t, w : At(t, w)' <=> call'[t].todo # Empty /\ First(call'[t].todo) = w
  BY DEF At, Empty, First

LEMMA NoCallIs ==
  /\ NoCall \in CallRec /\ NoCall.todo = Empty /\ NoCall.cmd = "none" /\ NoCall.h = EMU_ROOTHANDLE
  /\ NoCall.outer = Empty
  <1>1. Empty \in Seq(Word) /\ EMU_ROOTHANDLE \in Handle0
    BY DEF Empty, Handle0
  <1>2. NoCall = [todo |-> Empty, cmd |-> "none", h |-> EMU_ROOTHANDLE, outer |-> Empty, tries |-> 0]
    BY DEF NoCall, Empty
  <1> QED
    BY <1>1, <1>2 DEF CallRec

\* What a call does next, and the rest of it.
Going(t, c, s) == c \in CallRec /\ c.todo = s /\ c.cmd = call[t].cmd /\ c.h = call[t].h /\ c.outer = call[t].outer

LEMMA GotoIs ==
  ASSUME NEW t \in EmuThread, call \in [EmuThread -> CallRec], NEW s, s = Empty \/ IsSteps(s), Goto(t, s)
  PROVE  /\ call' \in [EmuThread -> CallRec] /\ \A u \in EmuThread : u # t => call'[u] = call[u]
         /\ s = Empty => call'[t] = NoCall
         /\ s # Empty => Going(t, call'[t], s)
  <1>1. CASE s = Empty
    <2>1. call' = [call EXCEPT ![t] = NoCall]
      BY <1>1 DEF Goto, Empty
    <2> QED
      BY <1>1, <2>1, NoCallIs
  <1>2. CASE s # Empty
    <2>1. call' = [call EXCEPT ![t] = [call[t] EXCEPT !.todo = s]] /\ s \in Seq(Word)
      BY <1>2 DEF Goto, Empty, IsSteps
    <2>2. call[t] \in CallRec
      OBVIOUS
    <2> DEFINE S == Seq(Word)
    <2>3. s \in S /\ CallRec = [todo : S, cmd : {"none", "open", "io", "close"}, h : Handle0, outer : S, tries : Nat]
      BY <2>1 DEF CallRec
    <2> HIDE DEF S
    <2>4. Going(t, [call[t] EXCEPT !.todo = s], s)
      BY <2>2, <2>3 DEF Going
    <2>5. call'[t] = [call[t] EXCEPT !.todo = s] /\ \A u \in EmuThread : u # t => call'[u] = call[u]
      BY <2>1
    <2>6. [call[t] EXCEPT !.todo = s] \in CallRec
      BY <2>4 DEF Going
    <2>7. call' \in [EmuThread -> CallRec]
      BY <2>1, <2>6
    <2> QED
      BY <1>2, <2>4, <2>5, <2>7
  <1> QED
    BY <1>1, <1>2

\* The rest of the call of a thread, as the invariant sees it.
LEMMA OthersSame ==
  ASSUME NEW u, call'[u] = call[u]
  PROVE  /\ Keeps(u)' <=> Keeps(u)
         /\ Drops(u)' <=> Drops(u)
         /\ Reclaims(u)' <=> Reclaims(u)
         /\ \A w : At(u, w)' <=> At(u, w)
  BY DEF Keeps, Drops, Reclaims, At

LEMMA FitsStep ==
  ASSUME EmuFits, NEW t \in EmuThread, CallFits(t)',
         \A u \in EmuThread : u # t => call'[u] = call[u] /\ has'[u] = has[u]
  PROVE  EmuFits'
  <1>1. ASSUME NEW u \in EmuThread, u # t
        PROVE  CallFits(u)'
    <2>1. call'[u] = call[u] /\ has'[u] = has[u] /\ CallFits(u)
      BY <1>1 DEF EmuFits
    <2> QED
      BY <2>1, OthersSame DEF CallFits
  <1> QED
    BY <1>1 DEF EmuFits

LEMMA LockedStep ==
  ASSUME EmuLocked, NEW t \in EmuThread, \A u \in EmuThread : u # t => call'[u] = call[u],
         \/ e_lock' = e_lock /\ (LockedIn(call'[t].todo) <=> LockedIn(call[t].todo))
         \/ e_lock = NoHolder /\ e_lock' = t /\ LockedIn(call'[t].todo)
         \/ e_lock = t /\ e_lock' = NoHolder /\ ~LockedIn(call'[t].todo)
  PROVE  EmuLocked'
  <1>1. NoHolder \notin EmuThread
    BY EmuAssumption
  <1> QED
    BY <1>1 DEF EmuLocked

\* Whoever is at a step of the hardware or of the table has e_lock.
LEMMA HasLock ==
  ASSUME EmuFits, EmuLocked, NEW t \in EmuThread
  PROVE  /\ call[t].todo # Empty /\ First(call[t].todo) \in {"op", "wait", "load", "check", "remove", "eV"} => e_lock = t
         /\ Reclaims(t) => e_lock = t
  <1>1. Fits(call[t].cmd, call[t].todo, call[t].outer)
    BY DEF EmuFits, CallFits
  <1>2. call[t].todo # Empty /\ First(call[t].todo) \in {"op", "wait", "load", "check", "remove", "eV"} => LockedIn(call[t].todo)
    BY <1>1, LockFits
  <1>3. Reclaims(t) => LockedIn(call[t].todo)
    BY <1>1, ReclaimFits DEF Reclaims
  <1> QED
    BY <1>2, <1>3 DEF EmuLocked

\* The hardware rests when the one with e_lock does not wait.
LEMMA Rests ==
  ASSUME EmuTypes, EmuLocked, EmuBusy, NEW t \in EmuThread, LockedIn(call[t].todo) \/ e_lock = t \/ e_lock = NoHolder, ~At(t, "wait")
  PROVE  reg.stat = "idle" /\ e_sem = 0 /\ \A u : ~Done(u)
  <1>1. e_lock = t \/ e_lock = NoHolder
    BY DEF EmuLocked
  <1>2. reg.stat = "idle" /\ e_sem = 0
    BY <1>1 DEF EmuBusy, EmuTypes
  <1> QED
    BY <1>2 DEF Done

LEMMA OwnedStep ==
  ASSUME EmuTypes, EmuFits, EmuOwned, UNCHANGED <<ef_vnodes, hwopen>>, gaveup \subseteq gaveup',
         \A h \in Handle : Holding(h)' \subseteq Holding(h),
         \A u \in EmuThread : \A h \in Handle0 : Mine(u, h)' <=> Mine(u, h),
         \A u \in EmuThread : Mine(u, call[u].h) \/ Mine(u, reg.h) => (Shut(u)' <=> Shut(u)),
         \A u \in EmuThread : Reclaims(u)' <=> Reclaims(u),
         \A u \in EmuThread : Reclaims(u) => call'[u].h = call[u].h /\ (Gone(u)' <=> Gone(u))
  PROVE  EmuOwned'
  <1>1. ASSUME NEW h \in Handle
        PROVE  Counted(h)' /\ Loaded(h)' /\ Owned(h)'
    <2>1. Counted(h) /\ Loaded(h) /\ Owned(h) /\ h \in Handle0
      BY DEF EmuOwned, Handle0
    <2>2. Counted(h)'
      <3>1. Holding(h)' \subseteq Holding(h) /\ IsFiniteSet(Holding(h))
        <4>1. Holding(h) \subseteq EmuThread
          BY DEF Holding
        <4> QED
          BY <4>1, EmuAssumption, FS_Subset
      <3>2. Cardinality(Holding(h)') <= Cardinality(Holding(h)) /\ Cardinality(Holding(h)') \in Nat /\ Cardinality(Holding(h)) \in Nat
        BY <3>1, FS_Subset, FS_CardinalityType
      <3>3. ef_vnodes[h] \in Nat /\ ef_vnodes'[h] = ef_vnodes[h]
        BY DEF EmuTypes
      <3>4. ef_vnodes[h] >= Cardinality(Holding(h))
        BY <2>1 DEF Counted
      <3>5. ef_vnodes'[h] >= Cardinality(Holding(h)')
        BY <3>2, <3>3, <3>4
      <3> QED
        BY <3>5 DEF Counted
    <2>3. Loaded(h)'
      BY <2>1 DEF Loaded
    <2>4. Owned(h)'
      BY <2>1 DEF Owned
    <2> QED
      BY <2>2, <2>3, <2>4
  <1>2. ASSUME NEW u \in EmuThread
        PROVE  Reclaimed(u)'
    BY DEF EmuOwned, Reclaimed
  <1>3. ASSUME NEW u \in EmuThread, NEW h \in Handle0
        PROVE  OnlyMine(u, h)'
    <2>1. OnlyMine(u, h)
      BY DEF EmuOwned
    <2>2. Mine(u, h) => h = call[u].h \/ h = reg.h
      BY DEF Mine
    <2>3. Mine(u, h) => (Shut(u)' <=> Shut(u))
      BY <2>2
    <2> QED
      BY <2>1, <2>3 DEF OnlyMine
  <1> QED
    BY <1>1, <1>2, <1>3 DEF EmuOwned

\* A step that takes or gives back a lock, or starts the hardware.
LEMMA SimpleStep ==
  ASSUME EmuTypes, EmuFits, NEW t \in EmuThread, call[t].todo # Empty, First(call[t].todo) \notin Telling,
         Goto(t, Rest(t)), has' = has
  PROVE  /\ call' \in [EmuThread -> CallRec] /\ \A u \in EmuThread : u # t => call'[u] = call[u]
         /\ call'[t].todo = Then(call[t].todo) /\ EmuFits'
         /\ Then(call[t].todo) # Empty => call'[t].cmd = call[t].cmd /\ call'[t].h = call[t].h
         /\ Then(call[t].todo) = Empty => call'[t] = NoCall
         /\ \A u \in EmuThread : /\ Keeps(u)' <=> Keeps(u)
                                 /\ Drops(u)' <=> Drops(u)
                                 /\ Reclaims(u)' <=> Reclaims(u)
                                 /\ Keeps(u) \/ Drops(u) => call'[u].h = call[u].h
         /\ \A h : Holding(h)' = Holding(h)
  <1> DEFINE s == call[t].todo
  <1>1. CallFits(t) /\ Fits(call[t].cmd, s, call[t].outer) /\ call \in [EmuThread -> CallRec]
    BY DEF EmuFits, CallFits, EmuTypes
  <1>2. /\ IsSteps(s) /\ call[t].cmd # "none" /\ First(s) \in Word
        /\ Then(s) = Empty \/ (IsSteps(Then(s)) /\ Fits(call[t].cmd, Then(s), call[t].outer))
    BY <1>1, FitsNext
  <1>3. \A w \in Telling : Ahead(Then(s), w) <=> Ahead(s, w)
    BY <1>2, AheadSame
  <1>4. Goto(t, Then(s))
    BY DEF Rest, Then
  <1>5. /\ call' \in [EmuThread -> CallRec] /\ \A u \in EmuThread : u # t => call'[u] = call[u]
        /\ Then(s) = Empty => call'[t] = NoCall
        /\ Then(s) # Empty => Going(t, call'[t], Then(s))
    BY <1>1, <1>2, <1>4, GotoIs
  <1>6. /\ "wait" \in Telling /\ "load" \in Telling /\ "decref" \in Telling /\ "check" \in Telling /\ "remove" \in Telling
    BY DEF Telling
  <1>7. /\ Keeps(t)' <=> Keeps(t)
        /\ Drops(t)' <=> Drops(t)
        /\ Reclaims(t)' <=> Reclaims(t)
        /\ call'[t].todo = Then(s)
        /\ Then(s) # Empty => call'[t].cmd = call[t].cmd /\ call'[t].h = call[t].h /\ call'[t].outer = call[t].outer
        /\ Keeps(t) \/ Drops(t) => call'[t].h = call[t].h
    <2>1. CASE Then(s) = Empty
      <3>1. call'[t].todo = Empty /\ call'[t].cmd = "none"
        BY <2>1, <1>5, NoCallIs
      <3>2. \A w \in Telling : ~Ahead(s, w)
        BY <2>1, <1>3, NothingAhead
      <3>3. ~Keeps(t) /\ ~Drops(t) /\ ~Reclaims(t)
        BY <3>2, <1>6 DEF Keeps, Drops, Reclaims
      <3> QED
        BY <2>1, <3>1, <3>3 DEF Keeps, Drops, Reclaims
    <2>2. CASE Then(s) # Empty
      <3>1. call'[t].todo = Then(s) /\ call'[t].cmd = call[t].cmd /\ call'[t].h = call[t].h /\ call'[t].outer = call[t].outer
        BY <2>2, <1>5 DEF Going
      <3> QED
        BY <3>1, <1>3, <1>6 DEF Keeps, Drops, Reclaims
    <2> QED
      BY <2>1, <2>2
  <1>8. CallFits(t)'
    <2>1. CASE Then(s) = Empty
      <3>1. call'[t] = NoCall /\ call'[t].todo = Empty /\ call'[t].cmd = "none"
        BY <2>1, <1>5, NoCallIs
      <3>2. Fits("none", Empty, call'[t].outer)
        BY DEF Fits, Empty
      <3>3. ~Ahead(Empty, "load")
        BY NothingAhead
      <3>4. ~Keeps(t)' /\ ~Drops(t)'
        BY <3>1 DEF Keeps, Drops
      <3> QED
        BY <3>1, <3>2, <3>3, <3>4 DEF CallFits
    <2>2. CASE Then(s) # Empty
      <3>1. Fits(call'[t].cmd, call'[t].todo, call'[t].outer)
        BY <2>2, <1>2, <1>7
      <3>2. Ahead(call'[t].todo, "load") <=> Ahead(s, "load")
        BY <1>7, <1>3, <1>6
      <3> QED
        BY <2>2, <3>1, <3>2, <1>1, <1>2, <1>7 DEF CallFits
    <2> QED
      BY <2>1, <2>2
  <1>9. EmuFits'
    BY <1>5, <1>8, FitsStep
  <1>10. \A u \in EmuThread : /\ Keeps(u)' <=> Keeps(u)
                              /\ Drops(u)' <=> Drops(u)
                              /\ Reclaims(u)' <=> Reclaims(u)
                              /\ Keeps(u) \/ Drops(u) => call'[u].h = call[u].h
    BY <1>5, <1>7, OthersSame
  <1>11. \A h : Holding(h)' = Holding(h)
    BY <1>10 DEF Holding
  <1> QED
    BY <1>5, <1>7, <1>9, <1>10, <1>11
-----------------------------------------------------------------------------
(* The actions *)

LEMMA QuietOwned ==
  ASSUME EmuTypes, EmuFits, EmuOwned, NEW t \in EmuThread, UNCHANGED <<ef_vnodes, hwopen, gaveup>>,
         \A u \in EmuThread : u # t => call'[u] = call[u],
         \A u \in EmuThread : /\ Keeps(u)' <=> Keeps(u)
                              /\ Reclaims(u)' <=> Reclaims(u)
                              /\ Keeps(u) \/ Drops(u) => call'[u].h = call[u].h,
         \A h \in Handle : Holding(h)' \subseteq Holding(h),
         \A u \in EmuThread : Done(u)' <=> Done(u),
         \A u \in EmuThread : Done(u) => u # t /\ reg'.h = reg.h,
         Reclaims(t) => ~At(t, "remove") /\ ~At(t, "remove")'
  PROVE  EmuOwned'
  <1>1. ASSUME NEW u \in EmuThread
        PROVE  /\ Opened(u)' <=> Opened(u)
               /\ Shut(u)' <=> Shut(u)
               /\ Opened(u) => reg'.h = reg.h
    BY DEF Opened, Shut
  <1>2. ASSUME NEW u \in EmuThread, NEW h \in Handle0
        PROVE  Mine(u, h)' <=> Mine(u, h)
    BY <1>1 DEF Mine
  <1>3. ASSUME NEW u \in EmuThread, Reclaims(u)
        PROVE  call'[u].h = call[u].h /\ (Gone(u)' <=> Gone(u))
    <2>1. Drops(u)
      BY <1>3 DEF Drops, Reclaims
    <2>2. At(u, "remove")' <=> At(u, "remove")
      BY <1>3, OthersSame
    <2> QED
      BY <2>1, <2>2 DEF Gone
  <1> QED
    BY <1>1, <1>2, <1>3, OwnedStep

LEMMA BusySame ==
  ASSUME EmuTypes, EmuBusy, UNCHANGED <<e_lock, reg, e_sem, e_result>>, e_lock \in EmuThread => call'[e_lock] = call[e_lock]
  PROVE  EmuBusy'
  <1>1. CASE e_lock \in EmuThread
    BY <1>1 DEF EmuBusy, Opened, Done, At
  <1>2. CASE e_lock = NoHolder
    BY <1>2 DEF EmuBusy
  <1> QED
    BY <1>1, <1>2 DEF EmuTypes

LEMMA BigKeeps ==
  ASSUME EmuInv, NEW t \in EmuThread, vfs_biglock_acquire(t) \/ vfs_biglock_release(t)
  PROVE  EmuInv'
  <1> DEFINE s == call[t].todo
  <1>1. /\ s # Empty /\ First(s) \in {"bigP", "bigV"} /\ Goto(t, Rest(t))
        /\ UNCHANGED <<e_lock, e_sem, e_result, reg, hwopen, ef_vnodes, has, gaveup>>
    BY AtIs DEF vfs_biglock_acquire, vfs_biglock_release
  <1>2. EmuTypes /\ EmuFits /\ EmuLocked /\ EmuBusy /\ EmuOwned
    BY DEF EmuInv
  <1>3. First(s) \notin Telling
    BY <1>1 DEF Telling
  <1>4. Fits(call[t].cmd, s, call[t].outer)
    BY <1>2 DEF EmuFits, CallFits
  <1>5. ~LockedIn(s) /\ ~LockedIn(Then(s)) /\ e_lock # t
    BY <1>1, <1>2, <1>4, LockFits DEF EmuLocked
  <1>6. /\ call' \in [EmuThread -> CallRec] /\ \A u \in EmuThread : u # t => call'[u] = call[u]
        /\ call'[t].todo = Then(s) /\ EmuFits'
        /\ \A u \in EmuThread : /\ Keeps(u)' <=> Keeps(u)
                                /\ Reclaims(u)' <=> Reclaims(u)
                                /\ Keeps(u) \/ Drops(u) => call'[u].h = call[u].h
        /\ \A h : Holding(h)' = Holding(h)
    BY <1>1, <1>2, <1>3, SimpleStep
  <1>7. EmuTypes'
    BY <1>1, <1>2, <1>6 DEF EmuTypes
  <1>8. EmuLocked'
    BY <1>1, <1>2, <1>5, <1>6, LockedStep
  <1>9. EmuBusy'
    BY <1>1, <1>2, <1>5, <1>6, BusySame
  <1>10. \A u \in EmuThread : (Done(u)' <=> Done(u)) /\ (Done(u) => u # t)
    BY <1>1, <1>5, <1>6, OthersSame DEF Done
  <1>11. ~Reclaims(t)
    BY <1>2, <1>5, HasLock
  <1>12. EmuOwned'
    BY <1>1, <1>2, <1>6, <1>10, <1>11, QuietOwned
  <1> QED
    BY <1>6, <1>7, <1>8, <1>9, <1>12 DEF EmuInv

LEMMA LockKeeps ==
  ASSUME EmuInv, NEW t \in EmuThread, EmuLock(t) \/ EmuUnlock(t)
  PROVE  EmuInv'
  <1> DEFINE s == call[t].todo
  <1>1. /\ s # Empty /\ First(s) \in {"eP", "eV"} /\ Goto(t, Rest(t))
        /\ First(s) = "eP" => e_lock = NoHolder /\ e_lock' = t
        /\ First(s) = "eV" => e_lock' = NoHolder
        /\ UNCHANGED <<e_sem, e_result, reg, hwopen, ef_vnodes, has, gaveup>>
    BY AtIs DEF EmuLock, EmuUnlock
  <1>2. EmuTypes /\ EmuFits /\ EmuLocked /\ EmuBusy /\ EmuOwned
    BY DEF EmuInv
  <1>3. First(s) \notin Telling /\ ~At(t, "wait") /\ ~At(t, "remove")
    BY <1>1, AtIs DEF Telling
  <1>4. Fits(call[t].cmd, s, call[t].outer)
    BY <1>2 DEF EmuFits, CallFits
  <1>5. /\ First(s) = "eP" => LockedIn(Then(s))
        /\ First(s) = "eV" => ~LockedIn(Then(s)) /\ e_lock = t
    BY <1>1, <1>2, <1>4, LockFits DEF EmuLocked
  <1>6. /\ call' \in [EmuThread -> CallRec] /\ \A u \in EmuThread : u # t => call'[u] = call[u]
        /\ call'[t].todo = Then(s) /\ EmuFits'
        /\ \A u \in EmuThread : /\ Keeps(u)' <=> Keeps(u)
                                /\ Reclaims(u)' <=> Reclaims(u)
                                /\ Keeps(u) \/ Drops(u) => call'[u].h = call[u].h
        /\ \A h : Holding(h)' = Holding(h)
    BY <1>1, <1>2, <1>3, SimpleStep
  <1>7. EmuTypes'
    BY <1>1, <1>2, <1>6 DEF EmuTypes
  <1>8. EmuLocked'
    BY <1>1, <1>2, <1>5, <1>6, LockedStep
  <1>9. reg.stat = "idle" /\ e_sem = 0 /\ \A u : ~Done(u)
    BY <1>1, <1>2, <1>3, <1>5, Rests
  <1>10. EmuBusy' /\ \A u : ~Done(u)'
    BY <1>1, <1>9 DEF EmuBusy, Done
  <1>11. ~Reclaims(t)
    BY <1>1, <1>2, <1>4, ReclaimFits DEF Reclaims
  <1>12. EmuOwned'
    BY <1>1, <1>2, <1>6, <1>9, <1>10, <1>11, QuietOwned
  <1> QED
    BY <1>6, <1>7, <1>8, <1>10, <1>12 DEF EmuInv

LEMMA WregKeeps ==
  ASSUME EmuInv, NEW t \in EmuThread, emu_wreg(t)
  PROVE  EmuInv'
  <1> DEFINE s == call[t].todo
  <1>1. /\ s # Empty /\ First(s) = "op" /\ Goto(t, Rest(t))
        /\ reg' = [stat |-> "working", oper |-> call[t].cmd, h |-> call[t].h]
        /\ UNCHANGED <<e_lock, e_sem, e_result, hwopen, ef_vnodes, has, gaveup>>
    BY AtIs DEF emu_wreg
  <1>2. EmuTypes /\ EmuFits /\ EmuLocked /\ EmuBusy /\ EmuOwned
    BY DEF EmuInv
  <1>3. First(s) \notin Telling /\ ~At(t, "wait") /\ ~At(t, "remove")
    BY <1>1, AtIs DEF Telling
  <1>4. Fits(call[t].cmd, s, call[t].outer)
    BY <1>2 DEF EmuFits, CallFits
  <1>5. e_lock = t /\ LockedIn(s) /\ LockedIn(Then(s)) /\ Then(s) # Empty /\ First(Then(s)) = "wait"
    BY <1>1, <1>2, <1>4, LockFits, OpFits DEF EmuLocked
  <1>6. /\ call' \in [EmuThread -> CallRec] /\ \A u \in EmuThread : u # t => call'[u] = call[u]
        /\ call'[t].todo = Then(s) /\ EmuFits' /\ call'[t].cmd = call[t].cmd /\ call'[t].h = call[t].h
        /\ \A u \in EmuThread : /\ Keeps(u)' <=> Keeps(u)
                                /\ Reclaims(u)' <=> Reclaims(u)
                                /\ Keeps(u) \/ Drops(u) => call'[u].h = call[u].h
        /\ \A h : Holding(h)' = Holding(h)
    BY <1>1, <1>2, <1>3, <1>5, SimpleStep
  <1>7. EmuTypes'
    <2>1. call[t] \in CallRec
      BY <1>2 DEF EmuTypes
    <2>2. call[t].cmd \in {"none", "open", "io", "close"} /\ call[t].h \in Handle0
      BY <2>1 DEF CallRec
    <2> QED
      BY <1>1, <1>2, <1>6, <2>2 DEF EmuTypes
  <1>8. EmuLocked'
    BY <1>1, <1>2, <1>5, <1>6, LockedStep
  <1>9. reg.stat = "idle" /\ e_sem = 0 /\ \A u : ~Done(u)
    BY <1>1, <1>2, <1>3, <1>5, Rests
  <1>13. (\A w : At(t, w)' <=> w = "wait") /\ reg'.stat = "working" /\ reg'.oper = call'[t].cmd /\ reg'.h = call'[t].h
    BY <1>1, <1>5, <1>6, AtIs
  <1>10. \A u : ~Done(u)'
    BY <1>1, <1>9, <1>13 DEF Done
  <1>14. e_lock' = t /\ t # NoHolder
    BY <1>1, <1>5, EmuAssumption
  <1>15. EmuBusy'
    BY <1>1, <1>9, <1>13, <1>14 DEF EmuBusy
  <1>12. EmuOwned'
    BY <1>1, <1>2, <1>3, <1>6, <1>9, <1>10, <1>13, QuietOwned
  <1> QED
    BY <1>6, <1>7, <1>8, <1>15, <1>12 DEF EmuInv

\* The hardware goes on, and what a thread waits for is as done as before, but
\* for a transfer.
LEMMA HwOwned ==
  ASSUME EmuTypes, EmuFits, EmuOwned, UNCHANGED <<ef_vnodes, hwopen, gaveup, call, has>>, reg'.h = reg.h,
         \A u \in EmuThread : call[u].cmd # "io" => (Done(u)' <=> Done(u))
  PROVE  EmuOwned'
  <1>1. ASSUME NEW u \in EmuThread
        PROVE  /\ Keeps(u)' <=> Keeps(u)
               /\ Drops(u)' <=> Drops(u)
               /\ Reclaims(u)' <=> Reclaims(u)
               /\ At(u, "remove")' <=> At(u, "remove")
               /\ Opened(u)' <=> Opened(u)
               /\ Shut(u)' <=> Shut(u)
    BY OthersSame DEF Opened, Shut
  <1>2. \A h : Holding(h)' = Holding(h)
    BY <1>1 DEF Holding
  <1>3. ASSUME NEW u \in EmuThread, NEW h \in Handle0
        PROVE  Mine(u, h)' <=> Mine(u, h)
    BY <1>1 DEF Mine
  <1>4. ASSUME NEW u \in EmuThread, Reclaims(u)
        PROVE  call'[u].h = call[u].h /\ (Gone(u)' <=> Gone(u))
    BY <1>1, <1>4 DEF Gone, Reclaims
  <1> QED
    BY <1>1, <1>2, <1>3, <1>4, OwnedStep

\* The one for whom the hardware works.
LEMMA WorksFor ==
  ASSUME EmuTypes, EmuBusy, reg.stat # "idle" \/ e_sem = 1
  PROVE  /\ e_lock \in EmuThread /\ At(e_lock, "wait") /\ reg.oper = call[e_lock].cmd
         /\ Opened(e_lock) \/ reg.h = call[e_lock].h
  BY DEF EmuTypes, EmuBusy

LEMMA IrqKeeps ==
  ASSUME EmuInv, emu_irq
  PROVE  EmuInv'
  <1>1. EmuTypes /\ EmuFits /\ EmuLocked /\ EmuBusy /\ EmuOwned
    BY DEF EmuInv
  <1>2. /\ reg.stat \in {"ok", "EIO"} /\ e_result' = reg.stat /\ e_sem = 0 /\ e_sem' = 1
        /\ reg' = [reg EXCEPT !.stat = "idle"]
        /\ UNCHANGED <<e_lock, hwopen, ef_vnodes, call, has, gaveup>>
    BY <1>1 DEF emu_irq, EmuBusy
  <1>3. reg'.h = reg.h /\ reg'.stat = "idle" /\ reg'.oper = reg.oper
        /\ reg' \in [stat : {"idle", "working", "ok", "EIO"}, oper : {"none", "open", "io", "close"}, h : Handle0]
    BY <1>1, <1>2 DEF EmuTypes
  <1>4. EmuTypes'
    BY <1>1, <1>2, <1>3 DEF EmuTypes
  <1>5. EmuFits'
    BY <1>1, <1>2, OthersSame DEF EmuFits, CallFits
  <1>6. EmuLocked'
    BY <1>1, <1>2 DEF EmuLocked
  <1>7. \A u : Done(u)' <=> Done(u)
    BY <1>2, <1>3, OthersSame DEF Done
  <1>8. EmuBusy'
    <2>1. /\ e_lock \in EmuThread /\ At(e_lock, "wait") /\ reg.oper = call[e_lock].cmd
          /\ Opened(e_lock) \/ reg.h = call[e_lock].h
      BY <1>1, <1>2, WorksFor
    <2>2. e_lock # NoHolder
      BY <2>1, EmuAssumption
    <2>3. At(e_lock, "wait")' /\ (Opened(e_lock)' <=> Opened(e_lock))
      BY <1>2, <1>7, <2>1, OthersSame DEF Opened
    <2> QED
      BY <1>2, <1>3, <2>1, <2>2, <2>3 DEF EmuBusy
  <1>9. EmuOwned'
    BY <1>1, <1>2, <1>3, <1>7, HwOwned
  <1> QED
    BY <1>4, <1>5, <1>6, <1>8, <1>9 DEF EmuInv

\* The hardware ends what the thread asked for: what all its ends share.
LEMMA EmulateParts ==
  ASSUME EmuInv, reg.stat = "working", NEW k \in {"ok", "EIO"}, NEW h \in Handle0, NEW o, o \subseteq Handle,
         reg' = [reg EXCEPT !.stat = k, !.h = h], hwopen' = o,
         h = reg.h \/ (k = "ok" /\ reg.oper = "open"),
         UNCHANGED <<e_lock, e_sem, e_result, ef_vnodes, call, has, gaveup>>
  PROVE  /\ EmuTypes' /\ EmuFits' /\ EmuLocked' /\ EmuBusy'
         /\ reg'.h = h /\ e_lock \in EmuThread /\ reg.oper = call[e_lock].cmd /\ reg.h = call[e_lock].h /\ At(e_lock, "wait")
         /\ \A u : ~Done(u)
         /\ \A u : Done(u)' <=> u = e_lock /\ k = "ok"
  <1>1. EmuTypes /\ EmuFits /\ EmuLocked /\ EmuBusy
    BY DEF EmuInv
  <1>2. e_sem = 0
    BY <1>1 DEF EmuBusy
  <1>3. /\ reg'.h = h /\ reg'.stat = k /\ reg'.oper = reg.oper
        /\ reg' \in [stat : {"idle", "working", "ok", "EIO"}, oper : {"none", "open", "io", "close"}, h : Handle0]
    BY <1>1 DEF EmuTypes
  <1>4. EmuTypes'
    BY <1>1, <1>3 DEF EmuTypes
  <1>5. EmuFits'
    BY <1>1, OthersSame DEF EmuFits, CallFits
  <1>6. EmuLocked'
    BY <1>1 DEF EmuLocked
  <1>7. \A u : ~Done(u)
    BY <1>2 DEF Done
  <1>8. e_lock \in EmuThread /\ At(e_lock, "wait") /\ reg.oper = call[e_lock].cmd /\ reg.h = call[e_lock].h
    BY <1>1, <1>7, WorksFor DEF Opened
  <1>9. At(e_lock, "wait")'
    BY <1>8, OthersSame
  <1>10. \A u : Done(u)' <=> u = e_lock /\ k = "ok"
    BY <1>2, <1>3, <1>9 DEF Done
  <1>11. EmuBusy'
    <2>1. e_lock # NoHolder
      BY <1>8, EmuAssumption
    <2>2. Opened(e_lock)' <=> reg.oper = "open" /\ k = "ok"
      BY <1>8, <1>10 DEF Opened
    <2> QED
      BY <1>2, <1>3, <1>8, <1>9, <2>1, <2>2 DEF EmuBusy
  <1> QED
    BY <1>3, <1>4, <1>5, <1>6, <1>7, <1>8, <1>10, <1>11

\* A handle is opened: it belongs to the call that waits, and to nobody else.
LEMMA OpensKeeps ==
  ASSUME EmuInv, reg.stat = "working", reg.oper = "open", NEW h \in Handle, h \notin hwopen,
         reg' = [reg EXCEPT !.stat = "ok", !.h = h], hwopen' = hwopen \union {h},
         UNCHANGED <<e_lock, e_sem, e_result, ef_vnodes, call, has, gaveup>>
  PROVE  EmuInv'
  <1> DEFINE t == e_lock
  <1>1. EmuTypes /\ EmuFits /\ EmuLocked /\ EmuBusy /\ EmuOwned
    BY DEF EmuInv
  <1>2. h \in Handle0 /\ hwopen \union {h} \subseteq Handle
    BY <1>1 DEF EmuTypes, Handle0
  <1>3. /\ EmuTypes' /\ EmuFits' /\ EmuLocked' /\ EmuBusy'
        /\ reg'.h = h /\ t \in EmuThread /\ call[t].cmd = "open" /\ At(t, "wait")
        /\ \A u : ~Done(u)
        /\ \A u : Done(u)' <=> u = t
    <2>1. reg' = [reg EXCEPT !.stat = "ok", !.h = h] /\ "ok" \in {"ok", "EIO"}
      OBVIOUS
    <2> QED
      BY <1>2, <2>1, EmulateParts
  <1>4. \A u \in EmuThread : ~Reclaims(u)
    BY <1>1, <1>3, HasLock DEF Reclaims
  <1>5. ~Keeps(t) /\ \A x : ~Mine(t, x)
    <2>1. Fits("open", call[t].todo, call[t].outer) /\ call[t].todo # Empty /\ First(call[t].todo) = "wait"
      BY <1>1, <1>3, AtIs DEF EmuFits, CallFits
    <2>2. Ahead(call[t].todo, "wait")
      <3>1. IsSteps(call[t].todo)
        BY <2>1, FitsNext
      <3> QED
        BY <2>1, <3>1, AheadIn
    <2>3. ~Keeps(t)
      BY <1>3, <2>2 DEF Keeps
    <2> QED
      BY <1>3, <2>3 DEF Mine, Opened
  <1>6. ef_vnodes[h] = 0
    <2>1. Loaded(h) /\ ef_vnodes[h] \in Nat
      BY <1>1 DEF EmuOwned, EmuTypes
    <2> QED
      BY <1>4, <2>1 DEF Loaded
  <1>7. ASSUME NEW u \in EmuThread, NEW x \in Handle0
        PROVE  /\ Mine(u, x)' <=> (u = t /\ x = h) \/ Mine(u, x)
               /\ Mine(u, x) => u # t /\ x # h
    <2>1. Keeps(u)' <=> Keeps(u)
      BY OthersSame
    <2>2. Opened(u)' <=> u = t
      BY <1>3 DEF Opened
    <2>3. ~Opened(u)
      BY <1>3 DEF Opened
    <2>4. Mine(u, x)' <=> (u = t /\ x = h) \/ Mine(u, x)
      BY <1>3, <2>1, <2>2, <2>3 DEF Mine
    <2>5. Mine(u, x) => x # h
      BY <1>1, <1>3 DEF EmuOwned, OnlyMine, Shut
    <2> QED
      BY <1>5, <2>4, <2>5
  <1>8. ASSUME NEW x \in Handle
        PROVE  Counted(x)' /\ Loaded(x)' /\ Owned(x)'
    <2>1. Counted(x) /\ Loaded(x) /\ Owned(x) /\ x \in Handle0
      BY <1>1 DEF EmuOwned, Handle0
    <2>2. Holding(x)' = Holding(x)
      <3>1. \A u \in EmuThread : Drops(u)' <=> Drops(u)
        BY OthersSame
      <3> QED
        BY <3>1 DEF Holding
    <2>3. Counted(x)'
      BY <2>1, <2>2 DEF Counted
    <2>4. Loaded(x)'
      BY <1>4, <2>1 DEF Loaded
    <2>5. Owned(x)'
      BY <1>3, <1>7, <2>1 DEF Owned
    <2> QED
      BY <2>3, <2>4, <2>5
  <1>9. ASSUME NEW u \in EmuThread
        PROVE  Reclaimed(u)'
    BY <1>4, OthersSame DEF Reclaimed
  <1>10. ASSUME NEW u \in EmuThread, NEW x \in Handle0
         PROVE  OnlyMine(u, x)'
    <2>1. OnlyMine(u, x)
      BY <1>1 DEF EmuOwned
    <2>2. Shut(u)' <=> Shut(u)
      BY <1>3 DEF Shut
    <2> QED
      BY <1>3, <1>6, <1>7, <2>1, <2>2 DEF OnlyMine, Shut
  <1>11. EmuOwned'
    BY <1>8, <1>9, <1>10 DEF EmuOwned
  <1> QED
    BY <1>3, <1>11 DEF EmuInv

\* The one that waits for a close reclaims the vnode, or has the handle itself.
LEMMA ClosesOwn ==
  ASSUME EmuTypes, EmuFits, EmuLocked, NEW t \in EmuThread, call[t].cmd = "close", At(t, "wait")
  PROVE  /\ Reclaims(t) <=> ~Keeps(t)
         /\ Reclaims(t) => First(Then(call[t].todo)) = "remove"
         /\ Keeps(t) => First(Then(call[t].todo)) # "remove"
         /\ call[t].h \in Handle /\ call[t].h \in Handle0
  <1>1. Fits("close", call[t].todo, call[t].outer) /\ call[t].todo # Empty /\ First(call[t].todo) = "wait" /\ CallFits(t)
    BY AtIs DEF EmuFits, CallFits
  <1>2. Ahead(call[t].todo, "wait")
    <2>1. IsSteps(call[t].todo)
      BY <1>1, FitsNext
    <2> QED
      BY <1>1, <2>1, AheadIn
  <1>3. /\ ~Ahead(call[t].todo, "check")
        /\ Ahead(call[t].todo, "remove") <=> First(Then(call[t].todo)) = "remove"
    BY <1>1, CloseFits
  <1>4. /\ Reclaims(t) <=> ~Keeps(t)
        /\ Reclaims(t) => First(Then(call[t].todo)) = "remove"
        /\ Keeps(t) => First(Then(call[t].todo)) # "remove"
        /\ Reclaims(t) => Drops(t)
    BY <1>2, <1>3 DEF Keeps, Reclaims, Drops
  <1> QED
    BY <1>1, <1>4 DEF CallFits, Handle0

LEMMA ShutsKeeps ==
  ASSUME EmuInv, reg.stat = "working", reg.oper = "close",
         reg' = [reg EXCEPT !.stat = "ok"], hwopen' = hwopen \ {reg.h},
         UNCHANGED <<e_lock, e_sem, e_result, ef_vnodes, call, has, gaveup>>
  PROVE  EmuInv'
  <1> DEFINE t == e_lock
             h == reg.h
  <1>1. EmuTypes /\ EmuFits /\ EmuLocked /\ EmuBusy /\ EmuOwned
    BY DEF EmuInv
  <1>2. h \in Handle0 /\ hwopen \ {h} \subseteq Handle
    BY <1>1 DEF EmuTypes
  <1>3. /\ EmuTypes' /\ EmuFits' /\ EmuLocked' /\ EmuBusy'
        /\ reg'.h = h /\ t \in EmuThread /\ call[t].cmd = "close" /\ call[t].h = h /\ At(t, "wait")
        /\ \A u : ~Done(u)
        /\ \A u : Done(u)' <=> u = t
    <2>1. reg' = [reg EXCEPT !.stat = "ok", !.h = h] /\ "ok" \in {"ok", "EIO"}
      BY <1>1 DEF EmuTypes
    <2> QED
      BY <1>2, <2>1, EmulateParts
  <1>4. /\ Reclaims(t) <=> ~Keeps(t)
        /\ h \in Handle
    BY <1>1, <1>3, ClosesOwn
  <1>5. ASSUME NEW u \in EmuThread
        PROVE  /\ Keeps(u)' <=> Keeps(u)
               /\ Drops(u)' <=> Drops(u)
               /\ Reclaims(u)' <=> Reclaims(u)
               /\ At(u, "remove")' <=> At(u, "remove")
               /\ ~Opened(u) /\ ~Opened(u)' /\ ~Shut(u)
               /\ Shut(u)' <=> u = t
               /\ Reclaims(u) => u = t
    BY <1>1, <1>3, OthersSame, HasLock DEF Opened, Shut
  <1>6. ASSUME NEW u \in EmuThread, NEW x \in Handle0
        PROVE  Mine(u, x)' <=> Mine(u, x)
    BY <1>5 DEF Mine
  <1>7. \A x : Holding(x)' = Holding(x)
    BY <1>5 DEF Holding
  <1>12. Mine(t, h) <=> Keeps(t)
    BY <1>3, <1>5 DEF Mine
  <1>13. Reclaims(t) => ef_vnodes[h] = 1
    BY <1>1, <1>3 DEF EmuOwned, Reclaimed
  <1>14. Keeps(t) => ef_vnodes[h] = 0 /\ \A u \in EmuThread : Mine(u, h) => u = t
    BY <1>1, <1>2, <1>3, <1>12 DEF EmuOwned, OnlyMine
  <1>8. ASSUME NEW x \in Handle
        PROVE  Counted(x)' /\ Loaded(x)' /\ Owned(x)'
    <2>1. Counted(x) /\ Loaded(x) /\ Owned(x) /\ x \in Handle0
      BY <1>1 DEF EmuOwned, Handle0
    <2>3. Counted(x)'
      BY <2>1, <1>7 DEF Counted
    <2>4. Loaded(x)'
      BY <1>3, <1>4, <1>5, <1>14, <2>1 DEF Loaded
    <2>5. Owned(x)'
      BY <1>6, <2>1 DEF Owned
    <2> QED
      BY <2>3, <2>4, <2>5
  <1>9. ASSUME NEW u \in EmuThread
        PROVE  Reclaimed(u)'
    BY <1>3, <1>5, <1>13 DEF Reclaimed, Gone
  <1>10. ASSUME NEW u \in EmuThread, NEW x \in Handle0
         PROVE  OnlyMine(u, x)'
    <2>1. OnlyMine(u, x) /\ \A v \in EmuThread : Mine(v, x)' <=> Mine(v, x)
      BY <1>1, <1>6 DEF EmuOwned
    <2>2. CASE x = h /\ Mine(u, x)
      <3>1. ef_vnodes[h] = 0
        BY <2>1, <2>2 DEF OnlyMine
      <3>2. u = t
        BY <2>2, <3>1, <1>4, <1>13, <1>14
      <3> QED
        BY <2>1, <2>2, <3>2, <1>5 DEF OnlyMine
    <2>3. CASE x # h /\ Mine(u, x)
      <3>1. u # t
        BY <2>3, <1>3, <1>5 DEF Mine
      <3> QED
        BY <2>1, <2>3, <3>1, <1>5 DEF OnlyMine
    <2>4. CASE ~Mine(u, x)
      BY <2>1, <2>4 DEF OnlyMine
    <2> QED
      BY <2>2, <2>3, <2>4
  <1>11. EmuOwned'
    BY <1>8, <1>9, <1>10 DEF EmuOwned
  <1> QED
    BY <1>3, <1>11 DEF EmuInv

LEMMA EmulateKeeps ==
  ASSUME EmuInv, Emulate
  PROVE  EmuInv'
  <1>1. EmuTypes /\ EmuFits /\ EmuLocked /\ EmuBusy /\ EmuOwned
    BY DEF EmuInv
  <1>2. reg.stat = "working" /\ UNCHANGED <<e_lock, e_sem, e_result, ef_vnodes, call, has, gaveup>> /\ reg.h \in Handle0
        /\ hwopen \subseteq Handle
    BY <1>1 DEF Emulate, EmuTypes
  <1>3. CASE \E h \in Handle \ hwopen : /\ reg.oper = "open" /\ reg' = [reg EXCEPT !.stat = "ok", !.h = h]
                                        /\ hwopen' = hwopen \union {h}
    BY <1>2, <1>3, OpensKeeps
  <1>4. CASE reg.oper = "close" /\ reg' = [reg EXCEPT !.stat = "ok"] /\ hwopen' = hwopen \ {reg.h}
    BY <1>2, <1>4, ShutsKeeps
  <1>5. ASSUME NEW k \in {"ok", "EIO"}, reg' = [reg EXCEPT !.stat = k], hwopen' = hwopen,
               k = "ok" => reg.oper \notin {"open", "close"}
        PROVE  EmuInv'
    <2>1. reg' = [reg EXCEPT !.stat = k, !.h = reg.h]
      BY <1>1, <1>5 DEF EmuTypes
    <2>2. /\ EmuTypes' /\ EmuFits' /\ EmuLocked' /\ EmuBusy'
          /\ reg'.h = reg.h /\ e_lock \in EmuThread /\ reg.oper = call[e_lock].cmd /\ At(e_lock, "wait")
          /\ \A u : ~Done(u)
          /\ \A u : Done(u)' <=> u = e_lock /\ k = "ok"
      BY <1>2, <1>5, <2>1, EmulateParts
    <2>3. call[e_lock].cmd \in {"open", "io", "close"}
      <3>1. Fits(call[e_lock].cmd, call[e_lock].todo, call[e_lock].outer) /\ call[e_lock].todo # Empty
        BY <1>1, <2>2, AtIs DEF EmuFits, CallFits
      <3> QED
        BY <3>1 DEF Fits, Empty
    <2>4. \A u \in EmuThread : call[u].cmd # "io" => (Done(u)' <=> Done(u))
      BY <1>5, <2>2, <2>3
    <2>5. EmuOwned'
      BY <1>1, <1>2, <1>5, <2>2, <2>4, HwOwned
    <2> QED
      BY <2>2, <2>5 DEF EmuInv
  <1> QED
    BY <1>3, <1>4, <1>5 DEF Emulate

\* What becomes of a call when the hardware is done.
Waited(t, c, s, h) == c \in CallRec /\ c.todo = s /\ c.cmd = call[t].cmd /\ c.h = h /\ c.outer = call[t].outer

LEMMA AfterWaitIs ==
  ASSUME EmuTypes, EmuFits, NEW t \in EmuThread, At(t, "wait")
  PROVE  /\ e_result = "ok" => Waited(t, AfterWait(t), Then(call[t].todo), reg.h)
         /\ e_result # "ok" /\ call[t].cmd = "open" => Waited(t, AfterWait(t), <<"eV">> \o call[t].outer, call[t].h)
         /\ e_result # "ok" /\ call[t].cmd = "io" => Waited(t, AfterWait(t), <<"eV">>, call[t].h)
         /\ e_result # "ok" /\ call[t].cmd = "close" /\ call[t].tries < RETRIES =>
               Waited(t, AfterWait(t), <<"op", "wait">> \o Then(call[t].todo), call[t].h)
         /\ e_result # "ok" /\ call[t].cmd = "close" /\ ~(call[t].tries < RETRIES) =>
               Waited(t, AfterWait(t), IF First(Then(call[t].todo)) = "remove" THEN Then(Then(call[t].todo)) ELSE Then(call[t].todo), call[t].h)
  <1> DEFINE c == call[t]
             S == Seq(Word)
  <1>1. /\ c \in CallRec /\ Fits(c.cmd, c.todo, c.outer) /\ c.todo # Empty /\ First(c.todo) = "wait"
        /\ reg.h \in Handle0 /\ c.h \in Handle0 /\ c.tries \in Nat
    <2>1. c \in CallRec /\ reg.h \in Handle0
      BY DEF EmuTypes
    <2> QED
      BY <2>1, AtIs DEF EmuFits, CallFits, CallRec
  <1>2. CallRec = [todo : S, cmd : {"none", "open", "io", "close"}, h : Handle0, outer : S, tries : Nat]
    BY DEF CallRec
  <1>12. \A s : IsSteps(s) => s \in S
    BY DEF IsSteps
  <1>3. Then(c.todo) \in S
    <2>1. Then(c.todo) = Empty \/ IsSteps(Then(c.todo))
      BY <1>1, FitsNext
    <2>2. Empty \in S
      BY DEF Empty
    <2> QED
      BY <2>1, <2>2, <1>12
  <1>4. <<"eV">> \in S
    BY DEF Word
  <1> HIDE DEF S
  <1>5. ASSUME NEW s \in S, NEW h \in Handle0, NEW n \in Nat
        PROVE  /\ Waited(t, [c EXCEPT !.todo = s], s, c.h)
               /\ Waited(t, [c EXCEPT !.todo = s, !.h = h], s, h)
               /\ Waited(t, [c EXCEPT !.todo = s, !.tries = n], s, c.h)
    BY <1>1, <1>2 DEF Waited
  <1>6. Rest(t) = Then(c.todo)
    BY DEF Rest, Then
  <1>7. e_result = "ok" => Waited(t, AfterWait(t), Then(c.todo), reg.h)
    <2>1. e_result = "ok" => AfterWait(t) = [c EXCEPT !.todo = Then(c.todo), !.h = reg.h]
      BY <1>6, Zenon DEF AfterWait
    <2>2. Waited(t, [c EXCEPT !.todo = Then(c.todo), !.h = reg.h], Then(c.todo), reg.h)
      BY <1>1, <1>3, <1>5
    <2> QED
      BY <2>1, <2>2, Zenon
  <1>8. e_result # "ok" /\ c.cmd = "open" => Waited(t, AfterWait(t), <<"eV">> \o c.outer, c.h)
    <2> SUFFICES ASSUME e_result # "ok", c.cmd = "open"
                 PROVE  Waited(t, AfterWait(t), <<"eV">> \o c.outer, c.h)
      OBVIOUS
    <2> DEFINE r == <<"eV">> \o c.outer
    <2>1. Ending("open", r, c.outer)
      BY <1>1, OpenFits
    <2>2. r \in S
      BY <2>1 DEF Ending, IsSteps, S
    <2>3. AfterWait(t) = [c EXCEPT !.todo = r]
      BY DEF AfterWait
    <2> HIDE DEF r
    <2>4. Waited(t, [c EXCEPT !.todo = r], r, c.h)
      BY <1>1, <1>5, <2>2
    <2>5. Waited(t, AfterWait(t), r, c.h)
      BY <2>3, <2>4, Zenon
    <2> QED
      BY <2>5 DEF r
  <1>9. e_result # "ok" /\ c.cmd = "io" => Waited(t, AfterWait(t), <<"eV">>, c.h)
    <2> SUFFICES ASSUME e_result # "ok", c.cmd = "io"
                 PROVE  Waited(t, AfterWait(t), <<"eV">>, c.h)
      OBVIOUS
    <2>1. AfterWait(t) = [c EXCEPT !.todo = <<"eV">>]
      BY DEF AfterWait
    <2>2. Waited(t, [c EXCEPT !.todo = <<"eV">>], <<"eV">>, c.h)
      BY <1>1, <1>4, <1>5
    <2> QED
      BY <2>1, <2>2, Zenon
  <1>10. e_result # "ok" /\ c.cmd = "close" /\ c.tries < RETRIES => Waited(t, AfterWait(t), <<"op", "wait">> \o Then(c.todo), c.h)
    <2> SUFFICES ASSUME e_result # "ok", c.cmd = "close", c.tries < RETRIES
                 PROVE  Waited(t, AfterWait(t), <<"op", "wait">> \o Then(c.todo), c.h)
      OBVIOUS
    <2> DEFINE r == <<"op", "wait">> \o Then(c.todo)
    <2>1. Again(c.todo, r, c.outer)
      BY <1>1, RetryFits
    <2>2. r \in S
      BY <2>1 DEF Again, IsSteps, S
    <2>3. AfterWait(t) = [c EXCEPT !.todo = r, !.tries = c.tries + 1]
      BY <1>6 DEF AfterWait
    <2>6. c.tries + 1 \in Nat
      BY <1>1
    <2> HIDE DEF r
    <2>4. Waited(t, [c EXCEPT !.todo = r, !.tries = c.tries + 1], r, c.h)
      BY <1>1, <1>5, <2>2, <2>6
    <2>5. Waited(t, AfterWait(t), r, c.h)
      BY <2>3, <2>4, Zenon
    <2> QED
      BY <2>5 DEF r
  <1>11. e_result # "ok" /\ c.cmd = "close" /\ ~(c.tries < RETRIES) =>
            Waited(t, AfterWait(t), IF First(Then(c.todo)) = "remove" THEN Then(Then(c.todo)) ELSE Then(c.todo), c.h)
    <2> SUFFICES ASSUME e_result # "ok", c.cmd = "close", ~(c.tries < RETRIES)
                 PROVE  Waited(t, AfterWait(t), IF First(Then(c.todo)) = "remove" THEN Then(Then(c.todo)) ELSE Then(c.todo), c.h)
      OBVIOUS
    <2> DEFINE r == IF First(Then(c.todo)) = "remove" THEN Then(Then(c.todo)) ELSE Then(c.todo)
    <2>1. First(Then(c.todo)) = "remove" => Then(Then(c.todo)) \in S
      BY <1>1, <1>12, CloseFits
    <2>2. r \in S
      BY <1>3, <2>1
    <2>3. AfterWait(t) = [c EXCEPT !.todo = r]
      BY <1>6 DEF AfterWait, First, Then
    <2> HIDE DEF r
    <2>4. Waited(t, [c EXCEPT !.todo = r], r, c.h)
      BY <1>1, <1>5, <2>2
    <2>5. Waited(t, AfterWait(t), r, c.h)
      BY <2>3, <2>4, Zenon
    <2> QED
      BY <2>5 DEF r
  <1> QED
    BY <1>7, <1>8, <1>9, <1>10, <1>11, Zenon

\* A call that has a handle leaves it: closed, given up, or in use by a vnode.
LEMMA LeavesOwned ==
  ASSUME EmuTypes, EmuFits, EmuLocked, EmuOwned, NEW t \in EmuThread, e_lock = t, UNCHANGED <<ef_vnodes, hwopen, has>>,
         gaveup \subseteq gaveup', \A u \in EmuThread : u # t => call'[u] = call[u],
         \A u : ~Done(u)', ~Keeps(t)', ~Reclaims(t)', Drops(t)' => Drops(t) /\ call'[t].h = call[t].h,
         Reclaims(t) => call[t].h \in hwopen,
         \A x \in Handle : Mine(t, x) => x \notin hwopen \/ x \in gaveup'
  PROVE  EmuOwned'
  <1>1. ASSUME NEW u \in EmuThread, u # t
        PROVE  /\ ~Done(u) /\ ~Reclaims(u) /\ (Keeps(u)' <=> Keeps(u)) /\ ~Reclaims(u)' /\ (Drops(u)' <=> Drops(u))
               /\ call'[u].h = call[u].h /\ ~Shut(u) /\ ~Shut(u)'
               /\ \A x : Mine(u, x)' <=> Mine(u, x)
    <2>1. ~Done(u) /\ ~Reclaims(u) /\ (Keeps(u)' <=> Keeps(u)) /\ ~Reclaims(u)' /\ (Drops(u)' <=> Drops(u)) /\ call'[u].h = call[u].h
      BY <1>1, HasLock, OthersSame DEF Done
    <2> QED
      BY <2>1 DEF Mine, Opened, Shut
  <1>2. \A x : ~Mine(t, x)'
    BY DEF Mine, Opened
  <1>3. ASSUME NEW x \in Handle
        PROVE  Counted(x)' /\ Loaded(x)' /\ Owned(x)'
    <2>1. Counted(x) /\ Loaded(x) /\ Owned(x) /\ x \in Handle0 /\ ef_vnodes[x] \in Nat
      BY DEF EmuOwned, Handle0, EmuTypes
    <2>2. Holding(x)' \subseteq Holding(x)
      BY <1>1 DEF Holding
    <2>3. IsFiniteSet(Holding(x))
      <3>1. Holding(x) \subseteq EmuThread
        BY DEF Holding
      <3> QED
        BY <3>1, EmuAssumption, FS_Subset
    <2>4. Cardinality(Holding(x)') <= Cardinality(Holding(x)) /\ Cardinality(Holding(x)') \in Nat /\ Cardinality(Holding(x)) \in Nat
      BY <2>2, <2>3, FS_Subset, FS_CardinalityType
    <2>5. ef_vnodes'[x] >= Cardinality(Holding(x)')
      BY <2>1, <2>4 DEF Counted
    <2>6. Counted(x)'
      BY <2>5 DEF Counted
    <2>7. Loaded(x)'
      BY <1>1, <2>1 DEF Loaded
    <2>8. Owned(x)'
      BY <1>1, <2>1 DEF Owned
    <2> QED
      BY <2>6, <2>7, <2>8
  <1>4. ASSUME NEW u \in EmuThread
        PROVE  Reclaimed(u)'
    BY <1>1 DEF Reclaimed
  <1>5. ASSUME NEW u \in EmuThread, NEW x \in Handle0
        PROVE  OnlyMine(u, x)'
    <2>1. OnlyMine(u, x)
      BY DEF EmuOwned
    <2> QED
      BY <1>1, <1>2, <2>1 DEF OnlyMine
  <1> QED
    BY <1>3, <1>4, <1>5 DEF EmuOwned

LEMMA WaitParts ==
  ASSUME EmuInv, NEW t \in EmuThread, emu_waitdone(t)
  PROVE  /\ EmuTypes' /\ EmuFits' /\ EmuLocked' /\ EmuBusy' /\ e_lock = t /\ reg.oper = call[t].cmd
         /\ \A u \in EmuThread : u # t => call'[u] = call[u]
         /\ \A u : ~Done(u)'
         /\ \A u : Done(u) <=> u = t /\ e_result = "ok"
         /\ call'[t].cmd = call[t].cmd /\ ((call[t].cmd = "open" /\ e_result = "ok") \/ call'[t].h = call[t].h)
         /\ e_result = "ok" => call'[t].h = reg.h
  <1> DEFINE s == call[t].todo
             r == call'[t].todo
             c == call[t]
  <1>1. EmuTypes /\ EmuFits /\ EmuLocked /\ EmuBusy /\ EmuOwned
    BY DEF EmuInv
  <1>2. /\ At(t, "wait") /\ e_sem = 1 /\ e_sem' = 0 /\ call' = [call EXCEPT ![t] = AfterWait(t)]
        /\ UNCHANGED <<e_lock, e_result, reg, hwopen, ef_vnodes, has>>
    BY <1>1 DEF emu_waitdone, EmuTypes
  <1>3. /\ s # Empty /\ First(s) = "wait" /\ Fits(c.cmd, s, c.outer) /\ CallFits(t) /\ c.cmd \in {"open", "io", "close"}
        /\ IsSteps(s) /\ e_lock = t
    <2>1. s # Empty /\ First(s) = "wait" /\ Fits(c.cmd, s, c.outer) /\ CallFits(t)
      BY <1>1, <1>2, AtIs DEF EmuFits, CallFits
    <2>2. c.cmd \in {"open", "io", "close"} /\ IsSteps(s)
      BY <2>1, FitsNext DEF Fits
    <2> QED
      BY <1>1, <2>1, <2>2, HasLock
  <1>4. LockedIn(s) /\ LockedIn(Then(s)) /\ Then(s) # Empty /\ IsSteps(Then(s)) /\ Fits(c.cmd, Then(s), c.outer)
    BY <1>3, LockFits, FitsNext, NothingAhead
  <1>5. call'[t] = AfterWait(t) /\ \A u \in EmuThread : u # t => call'[u] = call[u]
    BY <1>1, <1>2 DEF EmuTypes
  <1>6. reg.stat = "idle" /\ (\A u : ~Done(u)') /\ \A u : Done(u) <=> u = t /\ e_result = "ok"
    BY <1>1, <1>2, <1>3 DEF EmuBusy, Done
  <1>7. reg.oper = c.cmd /\ ((c.cmd = "open" /\ e_result = "ok") \/ reg.h = c.h)
    BY <1>1, <1>2, <1>3, <1>6, WorksFor DEF Opened
  <1>8. call'[t] \in CallRec /\ call'[t].cmd = c.cmd /\ call'[t].outer = c.outer /\ call'[t].h = IF e_result = "ok" THEN reg.h ELSE c.h
    BY <1>1, <1>2, <1>3, <1>5, AfterWaitIs DEF Waited
  <1>9. Fits(c.cmd, r, c.outer) /\ LockedIn(r) /\ (Ahead(r, "load") => Ahead(s, "load"))
    <2>1. CASE e_result = "ok"
      <3>1. r = Then(s)
        BY <1>1, <1>2, <1>5, <2>1, AfterWaitIs DEF Waited
      <3> QED
        BY <1>3, <1>4, <3>1, AheadIn
    <2>2. CASE e_result # "ok" /\ c.cmd = "open"
      <3>1. r = <<"eV">> \o c.outer
        BY <1>1, <1>2, <1>5, <2>2, AfterWaitIs DEF Waited
      <3>2. Ending("open", r, c.outer)
        BY <1>3, <2>2, <3>1, OpenFits, Zenon
      <3> QED
        BY <2>2, <3>2 DEF Ending, Telling
    <2>3. CASE e_result # "ok" /\ c.cmd = "io"
      <3>1. r = <<"eV">>
        BY <1>1, <1>2, <1>5, <2>3, AfterWaitIs DEF Waited
      <3>2. Ending("io", r, c.outer)
        BY <3>1, IoFits, Zenon
      <3> QED
        BY <2>3, <3>2 DEF Ending, Telling
    <2>4. CASE e_result # "ok" /\ c.cmd = "close" /\ c.tries < RETRIES
      <3>1. r = <<"op", "wait">> \o Then(s)
        BY <1>1, <1>2, <1>5, <2>4, AfterWaitIs DEF Waited
      <3>2. Again(s, r, c.outer)
        BY <1>3, <2>4, <3>1, RetryFits, Zenon
      <3> QED
        BY <2>4, <3>2 DEF Again, Telling
    <2>5. CASE e_result # "ok" /\ c.cmd = "close" /\ ~(c.tries < RETRIES)
      <3>1. r = IF First(Then(s)) = "remove" THEN Then(Then(s)) ELSE Then(s)
        BY <1>1, <1>2, <1>5, <2>5, AfterWaitIs DEF Waited
      <3>2. CASE First(Then(s)) = "remove"
        BY <1>3, <2>5, <3>1, <3>2, CloseFits DEF Telling
      <3>3. CASE First(Then(s)) # "remove"
        BY <1>3, <1>4, <3>1, <3>3, AheadIn
      <3> QED
        BY <3>2, <3>3
    <2> QED
      BY <1>3, <2>1, <2>2, <2>3, <2>4, <2>5
  <1>10. EmuTypes'
    <2>1. call' \in [EmuThread -> CallRec]
      BY <1>1, <1>2, <1>5, <1>8 DEF EmuTypes
    <2> QED
      BY <1>1, <1>2, <2>1 DEF EmuTypes
  <1>11. EmuLocked'
    BY <1>1, <1>2, <1>4, <1>5, <1>9, LockedStep
  <1>12. EmuBusy'
    BY <1>2, <1>6 DEF EmuBusy
  <1>13. EmuFits'
    <2>1. Keeps(t)' \/ Drops(t)' => call'[t].h \in Handle
      <3>1. CASE c.cmd = "open"
        <4>1. ~Drops(t)'
          BY <1>8, <3>1 DEF Drops
        <4>2. e_result = "ok" => reg.h \in Handle
          <5>1. e_result = "ok" => Mine(t, reg.h) /\ reg.h \in Handle0
            BY <1>1, <1>6, <3>1 DEF Mine, Opened, EmuTypes
          <5> QED
            BY <1>1, <5>1 DEF EmuOwned, OnlyMine
        <4>3. e_result # "ok" => ~Keeps(t)'
          <5> SUFFICES ASSUME e_result # "ok"
                       PROVE  ~Keeps(t)'
            OBVIOUS
          <5>1. r = <<"eV">> \o c.outer
            BY <1>1, <1>2, <1>5, <3>1, AfterWaitIs DEF Waited
          <5>2. Ending("open", r, c.outer)
            BY <1>3, <3>1, <5>1, OpenFits, Zenon
          <5>3. ~Ahead(r, "load")
            BY <5>2 DEF Ending, Telling
          <5> QED
            BY <1>8, <3>1, <5>3 DEF Keeps
        <4> QED
          BY <1>8, <4>1, <4>2, <4>3
      <3>2. CASE c.cmd = "close"
        BY <1>1, <1>2, <1>7, <1>8, <3>2, ClosesOwn
      <3>3. CASE c.cmd = "io"
        BY <1>8, <3>3 DEF Keeps, Drops
      <3> QED
        BY <1>3, <3>1, <3>2, <3>3
    <2>2. c.cmd = "io" => call'[t].h = c.h
      BY <1>7, <1>8
    <2>3. CallFits(t)'
      BY <1>2, <1>3, <1>8, <1>9, <2>1, <2>2 DEF CallFits
    <2> QED
      BY <1>1, <1>2, <1>5, <2>3, FitsStep
  <1> QED
    BY <1>2, <1>3, <1>5, <1>6, <1>7, <1>8, <1>10, <1>11, <1>12, <1>13

LEMMA WaitKeeps ==
  ASSUME EmuInv, NEW t \in EmuThread, emu_waitdone(t)
  PROVE  EmuInv'
  <1> DEFINE s == call[t].todo
             r == call'[t].todo
             c == call[t]
  <1>1. EmuTypes /\ EmuFits /\ EmuLocked /\ EmuBusy /\ EmuOwned
    BY DEF EmuInv
  <1>2. /\ At(t, "wait") /\ call' = [call EXCEPT ![t] = AfterWait(t)] /\ gaveup \subseteq gaveup'
        /\ e_result # "ok" /\ c.cmd = "close" /\ ~(c.tries < RETRIES) => c.h \in gaveup'
        /\ UNCHANGED <<e_lock, e_result, reg, hwopen, ef_vnodes, has>>
    <2>1. c.tries \in Nat /\ RETRIES \in Nat
      <3>1. c \in CallRec
        BY <1>1 DEF EmuTypes
      <3> QED
        BY <3>1, EmuAssumption DEF CallRec
    <2> QED
      BY <2>1 DEF emu_waitdone
  <1>3. /\ EmuTypes' /\ EmuFits' /\ EmuLocked' /\ EmuBusy' /\ e_lock = t
        /\ \A u \in EmuThread : u # t => call'[u] = call[u]
        /\ \A u : ~Done(u)'
        /\ \A u : Done(u) <=> u = t /\ e_result = "ok"
        /\ call'[t].cmd = c.cmd /\ ((c.cmd = "open" /\ e_result = "ok") \/ call'[t].h = c.h)
        /\ e_result = "ok" => call'[t].h = reg.h
    BY WaitParts
  <1>4. s # Empty /\ First(s) = "wait" /\ Fits(c.cmd, s, c.outer) /\ c.cmd \in {"open", "io", "close"}
        /\ Ahead(s, "wait") /\ call'[t] = AfterWait(t)
    <2>1. s # Empty /\ First(s) = "wait" /\ Fits(c.cmd, s, c.outer)
      BY <1>1, <1>2, AtIs DEF EmuFits, CallFits
    <2>2. c.cmd \in {"open", "io", "close"} /\ IsSteps(s)
      BY <2>1, FitsNext DEF Fits
    <2> QED
      BY <1>1, <1>2, <2>1, <2>2, AheadIn DEF EmuTypes
  <1>5. ASSUME NEW u \in EmuThread, u # t
        PROVE  /\ Keeps(u)' <=> Keeps(u)
               /\ Drops(u)' <=> Drops(u)
               /\ ~Reclaims(u) /\ ~Reclaims(u)' /\ call'[u].h = call[u].h
               /\ ~Done(u) /\ ~Done(u)'
    BY <1>1, <1>3, <1>5, OthersSame, HasLock
  \* The call goes on, with what it had.
  <1>6. ASSUME \A x \in Handle0 : Mine(t, x)' <=> Mine(t, x),
               Drops(t)' => Drops(t) /\ call'[t].h = call[t].h,
               ~Shut(t) \/ ~(\E x : Mine(t, x)), Reclaims(t)' <=> Reclaims(t),
               Reclaims(t) => call'[t].h = call[t].h /\ (Gone(t)' <=> Gone(t))
        PROVE  EmuOwned'
    <2>1. ASSUME NEW u \in EmuThread, NEW x \in Handle0
          PROVE  Mine(u, x)' <=> Mine(u, x)
      BY <1>3, <1>5, <1>6 DEF Mine, Opened
    <2>2. ASSUME NEW u \in EmuThread
          PROVE  Mine(u, call[u].h) \/ Mine(u, reg.h) => (Shut(u)' <=> Shut(u))
      BY <1>3, <1>6 DEF Shut
    <2>3. \A h \in Handle : Holding(h)' \subseteq Holding(h)
      BY <1>2, <1>5, <1>6 DEF Holding
    <2> QED
      BY <1>1, <1>2, <1>5, <1>6, <2>1, <2>2, <2>3, OwnedStep
  <1>7. CASE c.cmd = "open"
    <2>1. ~Drops(t)' /\ ~Shut(t) /\ ~Reclaims(t)' /\ ~Reclaims(t) /\ ~Keeps(t)
      BY <1>3, <1>4, <1>7 DEF Drops, Shut, Reclaims, Keeps
    <2>2. CASE e_result = "ok"
      <3>1. r = Then(s)
        BY <1>1, <1>2, <1>4, <2>2, AfterWaitIs DEF Waited
      <3>2. Ahead(r, "load") /\ ~Ahead(r, "wait")
        BY <1>4, <1>7, <3>1, OpenFits
      <3>3. Keeps(t)' /\ call'[t].h = reg.h /\ Opened(t) /\ ~Opened(t)'
        BY <1>3, <1>7, <2>2, <3>2 DEF Keeps, Opened
      <3>4. \A x : Mine(t, x)' <=> Mine(t, x)
        BY <2>1, <3>3 DEF Mine
      <3> QED
        BY <1>3, <1>6, <2>1, <3>4 DEF EmuInv
    <2>3. CASE e_result # "ok"
      <3>1. r = <<"eV">> \o c.outer
        BY <1>1, <1>2, <1>4, <1>7, <2>3, AfterWaitIs DEF Waited
      <3>2. Ending("open", r, c.outer)
        BY <1>4, <1>7, <3>1, OpenFits, Zenon
      <3>3. ~Ahead(r, "load")
        BY <3>2 DEF Ending, Telling
      <3>4. ~Keeps(t)' /\ ~Opened(t) /\ ~Opened(t)'
        BY <1>3, <1>7, <2>3, <3>3 DEF Keeps, Opened
      <3>5. \A x : Mine(t, x)' <=> Mine(t, x)
        BY <2>1, <3>4 DEF Mine
      <3> QED
        BY <1>3, <1>6, <2>1, <3>5 DEF EmuInv
    <2> QED
      BY <1>3, <2>2, <2>3 DEF EmuInv
  <1>8. CASE c.cmd = "io"
    <2>1. ~Drops(t)' /\ ~Shut(t) /\ ~Reclaims(t)' /\ ~Reclaims(t) /\ ~Keeps(t) /\ ~Keeps(t)' /\ ~Opened(t) /\ ~Opened(t)'
      BY <1>3, <1>8 DEF Drops, Shut, Reclaims, Keeps, Opened
    <2>2. \A x : Mine(t, x)' <=> Mine(t, x)
      BY <2>1 DEF Mine
    <2> QED
      BY <1>3, <1>6, <2>1, <2>2 DEF EmuInv
  <1>9. CASE c.cmd = "close"
    <2>1. /\ Reclaims(t) <=> ~Keeps(t)
          /\ Reclaims(t) => First(Then(s)) = "remove"
          /\ Keeps(t) => First(Then(s)) # "remove"
          /\ c.h \in Handle /\ c.h \in Handle0 /\ call'[t].h = c.h
      BY <1>1, <1>2, <1>3, <1>9, ClosesOwn
    <2>2. ~Opened(t) /\ ~Opened(t)' /\ call'[t].cmd = "close" /\ Fits("close", s, c.outer)
      BY <1>3, <1>4, <1>9 DEF Opened
    <2>3. /\ ~Ahead(Then(s), "wait") /\ ~Ahead(Then(s), "decref") /\ ~Ahead(Then(s), "check") /\ Then(s) # Empty
          /\ Ahead(Then(s), "remove") <=> First(Then(s)) = "remove"
      BY <1>4, <2>2, CloseFits
    <2>4. \A x : Mine(t, x) <=> Keeps(t) /\ x = c.h
      BY <2>2 DEF Mine
    <2>5. \A x : Mine(t, x)' <=> Keeps(t)' /\ x = c.h
      BY <2>1, <2>2 DEF Mine
    <2>6. CASE e_result = "ok" /\ Reclaims(t)
      <3>1. r = Then(s)
        BY <1>1, <1>2, <1>4, <2>6, AfterWaitIs DEF Waited
      <3>2. Reclaims(t)' /\ ~Keeps(t)' /\ ~Keeps(t) /\ Drops(t)
        BY <2>1, <2>2, <2>3, <2>6, <3>1 DEF Reclaims, Keeps, Drops
      <3>3. Gone(t) /\ Gone(t)'
        BY <1>3, <2>1, <2>3, <2>6, <3>1, AtIs DEF Gone
      <3> QED
        BY <1>3, <1>6, <2>1, <2>4, <2>5, <2>6, <3>2, <3>3 DEF EmuInv
    <2>7. CASE e_result = "ok" /\ Keeps(t)
      <3>1. r = Then(s)
        BY <1>1, <1>2, <1>4, <2>7, AfterWaitIs DEF Waited
      <3>2. ~Reclaims(t)' /\ ~Keeps(t)' /\ ~Drops(t)'
        BY <2>1, <2>2, <2>3, <2>7, <3>1 DEF Reclaims, Keeps, Drops
      <3>3. Shut(t) /\ Mine(t, c.h)
        BY <1>3, <1>9, <2>4, <2>7 DEF Shut
      <3>4. c.h \notin hwopen
        BY <1>1, <2>1, <3>3 DEF EmuOwned, OnlyMine
      <3>5. \A x \in Handle : Mine(t, x) => x \notin hwopen \/ x \in gaveup'
        BY <2>4, <3>4
      <3>7. EmuOwned'
        BY <1>1, <1>2, <1>3, <2>1, <2>7, <3>2, <3>5, LeavesOwned
      <3> QED
        BY <1>3, <3>7 DEF EmuInv
    <2>8. CASE e_result # "ok" /\ c.tries < RETRIES
      <3>1. r = <<"op", "wait">> \o Then(s)
        BY <1>1, <1>2, <1>4, <1>9, <2>8, AfterWaitIs DEF Waited
      <3>2. Again(s, r, c.outer)
        BY <1>4, <1>9, <3>1, RetryFits, Zenon
      <3>3. /\ r # Empty /\ First(r) = "op"
            /\ Ahead(r, "wait") <=> Ahead(s, "wait")
            /\ Ahead(r, "remove") <=> Ahead(s, "remove")
            /\ Ahead(r, "check") <=> Ahead(s, "check")
            /\ Ahead(r, "decref") <=> Ahead(s, "decref")
        BY <3>2 DEF Again, Telling
      <3>4. /\ Keeps(t)' <=> Keeps(t)
            /\ Reclaims(t)' <=> Reclaims(t)
            /\ Drops(t)' <=> Drops(t)
        BY <1>9, <2>2, <3>3 DEF Keeps, Reclaims, Drops
      <3>5. ~Done(t) /\ ~Shut(t) /\ ~Gone(t) /\ ~Gone(t)'
        BY <1>3, <1>4, <2>8, <3>3, AtIs DEF Gone, Shut
      <3> QED
        BY <1>3, <1>6, <2>1, <2>4, <2>5, <3>4, <3>5 DEF EmuInv
    <2>9. CASE e_result # "ok" /\ ~(c.tries < RETRIES)
      <3>1. r = IF First(Then(s)) = "remove" THEN Then(Then(s)) ELSE Then(s)
        BY <1>1, <1>2, <1>4, <1>9, <2>9, AfterWaitIs DEF Waited
      <3>2. ~Ahead(r, "wait") /\ ~Ahead(r, "remove") /\ ~Ahead(r, "decref")
        <4>1. First(Then(s)) = "remove" => \A w \in Telling : ~Ahead(Then(Then(s)), w)
          BY <1>4, <2>2, CloseFits
        <4>2. CASE First(Then(s)) = "remove"
          BY <3>1, <4>1, <4>2 DEF Telling
        <4>3. CASE First(Then(s)) # "remove"
          BY <2>3, <3>1, <4>3
        <4> QED
          BY <4>2, <4>3
      <3>3. ~Reclaims(t)' /\ ~Keeps(t)' /\ ~Drops(t)'
        BY <1>9, <2>2, <3>2 DEF Reclaims, Keeps, Drops
      <3>4. ~Done(t) /\ ~Gone(t)
        BY <1>3, <1>4, <2>9, AtIs DEF Gone
      <3>5. Reclaims(t) => c.h \in hwopen
        BY <1>1, <3>4 DEF EmuOwned, Reclaimed
      <3>6. \A x \in Handle : Mine(t, x) => x \in gaveup'
        BY <1>2, <1>9, <2>4, <2>9
      <3>7. EmuOwned'
        BY <1>1, <1>2, <1>3, <3>3, <3>5, <3>6, LeavesOwned
      <3> QED
        BY <1>3, <3>7 DEF EmuInv
    <2> QED
      BY <1>3, <2>1, <2>6, <2>7, <2>8, <2>9 DEF EmuInv
  <1> QED
    BY <1>4, <1>7, <1>8, <1>9

\* The others, while one has e_lock.
LEMMA OthersFree ==
  ASSUME EmuTypes, EmuFits, EmuLocked, NEW t \in EmuThread, e_lock = t, e_lock' = t,
         \A u \in EmuThread : u # t => call'[u] = call[u], NEW u \in EmuThread, u # t
  PROVE  /\ ~Done(u) /\ ~Done(u)' /\ ~Reclaims(u) /\ ~Reclaims(u)' /\ ~Shut(u) /\ ~Shut(u)'
         /\ Keeps(u)' <=> Keeps(u)
         /\ Drops(u)' <=> Drops(u)
         /\ call'[u].h = call[u].h
         /\ \A x : Mine(u, x)' <=> Mine(u, x)
  <1>1. ~Done(u) /\ ~Done(u)' /\ ~Reclaims(u)
    BY HasLock DEF Done
  <1>2. /\ Keeps(u)' <=> Keeps(u)
        /\ Drops(u)' <=> Drops(u)
        /\ Reclaims(u)' <=> Reclaims(u)
        /\ call'[u].h = call[u].h
    BY OthersSame
  <1> QED
    BY <1>1, <1>2 DEF Mine, Opened, Shut

LEMMA HoldingFinite ==
  ASSUME EmuTypes, NEW x
  PROVE  IsFiniteSet(Holding(x)) /\ Cardinality(Holding(x)) \in Nat
  <1>1. Holding(x) \subseteq EmuThread
    BY DEF Holding
  <1> QED
    BY <1>1, EmuAssumption, FS_Subset, FS_CardinalityType

LEMMA HoldingGrows ==
  ASSUME EmuTypes, NEW x, NEW t, Holding(x)' \subseteq Holding(x) \union {t}
  PROVE  Cardinality(Holding(x)') \in Nat /\ Cardinality(Holding(x)') <= Cardinality(Holding(x)) + 1
  <1>1. IsFiniteSet(Holding(x)) /\ Cardinality(Holding(x)) \in Nat
    BY HoldingFinite
  <1>2. IsFiniteSet(Holding(x) \union {t}) /\ Cardinality(Holding(x) \union {t}) <= Cardinality(Holding(x)) + 1
        /\ Cardinality(Holding(x) \union {t}) \in Nat
    BY <1>1, FS_AddElement, FS_CardinalityType
  <1>3. IsFiniteSet(Holding(x)') /\ Cardinality(Holding(x)') <= Cardinality(Holding(x) \union {t})
    BY <1>2, FS_Subset
  <1>4. Cardinality(Holding(x)') \in Nat
    BY <1>3, FS_CardinalityType
  <1> QED
    BY <1>1, <1>2, <1>3, <1>4

LEMMA HoldingShrinks ==
  ASSUME EmuTypes, NEW x, Holding(x)' \subseteq Holding(x)
  PROVE  Cardinality(Holding(x)') \in Nat /\ Cardinality(Holding(x)') <= Cardinality(Holding(x)) /\ Cardinality(Holding(x)) \in Nat
  <1>1. IsFiniteSet(Holding(x)) /\ Cardinality(Holding(x)) \in Nat
    BY HoldingFinite
  <1>2. IsFiniteSet(Holding(x)') /\ Cardinality(Holding(x)') <= Cardinality(Holding(x))
    BY <1>1, FS_Subset
  <1> QED
    BY <1>1, <1>2, FS_CardinalityType

\* The vnode of a handle is made: the handle was the call's and nobody else's.
LEMMA LoadOwned ==
  ASSUME EmuInv, NEW t \in EmuThread, At(t, "load"), ef_vnodes' = [ef_vnodes EXCEPT ![call[t].h] = ef_vnodes[call[t].h] + 1],
         has' = [has EXCEPT ![t] = call[t].h], Goto(t, Rest(t)),
         UNCHANGED <<e_lock, e_sem, e_result, reg, hwopen, gaveup>>
  PROVE  EmuInv'
  <1> DEFINE s == call[t].todo
             c == call[t]
             h == call[t].h
  <1>1. EmuTypes /\ EmuFits /\ EmuLocked /\ EmuBusy /\ EmuOwned
    BY DEF EmuInv
  <1>2. /\ s # Empty /\ First(s) = "load" /\ Fits(c.cmd, s, c.outer) /\ CallFits(t) /\ ~At(t, "wait") /\ IsSteps(s)
        /\ Then(s) = Empty \/ (IsSteps(Then(s)) /\ Fits(c.cmd, Then(s), c.outer))
    <2>1. s # Empty /\ First(s) = "load" /\ Fits(c.cmd, s, c.outer) /\ CallFits(t) /\ ~At(t, "wait")
      BY <1>1, AtIs DEF EmuFits, CallFits
    <2> QED
      BY <2>1, FitsNext
  <1>3. /\ c.cmd = "open" /\ Ahead(s, "load") /\ ~Ahead(s, "wait") /\ Then(s) # Empty
        /\ \A w \in Telling : ~Ahead(Then(s), w)
    BY <1>2, LoadFits
  <1>4. e_lock = t /\ LockedIn(s) /\ LockedIn(Then(s))
    BY <1>1, <1>2, LockFits DEF EmuLocked
  <1>5. reg.stat = "idle" /\ e_sem = 0 /\ (\A u : ~Done(u)) /\ \A u : ~Done(u)'
    <2>1. reg.stat = "idle" /\ e_sem = 0 /\ \A u : ~Done(u)
      BY <1>1, <1>2, <1>4, Rests
    <2> QED
      BY <2>1 DEF Done
  <1>6. Keeps(t) /\ h \in Handle /\ h \in Handle0 /\ has[t] = EMU_ROOTHANDLE /\ EMU_ROOTHANDLE \notin Handle /\ t # NoHolder
    BY <1>2, <1>3, EmuAssumption DEF Keeps, CallFits, Handle0
  <1>7. Mine(t, h) /\ ef_vnodes[h] = 0 /\ h \in hwopen /\ \A u \in EmuThread : Mine(u, h) => u = t
    <2>1. Mine(t, h) /\ ~Shut(t)
      BY <1>3, <1>6 DEF Mine, Shut
    <2> QED
      BY <1>1, <1>6, <2>1 DEF EmuOwned, OnlyMine
  <1>8. /\ call' \in [EmuThread -> CallRec] /\ \A u \in EmuThread : u # t => call'[u] = call[u]
        /\ call'[t].todo = Then(s) /\ call'[t].cmd = "open" /\ call'[t].h = h /\ call'[t].outer = c.outer
    <2>1. Goto(t, Then(s)) /\ call \in [EmuThread -> CallRec]
      BY <1>1 DEF Rest, Then, EmuTypes
    <2> QED
      BY <1>2, <1>3, <2>1, GotoIs DEF Going
  <1>9. /\ ~Ahead(Then(s), "load") /\ ~Ahead(Then(s), "wait") /\ ~Ahead(Then(s), "remove") /\ ~Ahead(Then(s), "decref")
    BY <1>3 DEF Telling
  <1>10. ~Keeps(t)' /\ ~Drops(t)' /\ ~Drops(t) /\ ~Reclaims(t) /\ ~Reclaims(t)' /\ ~Opened(t)' /\ ~Opened(t) /\ \A x : ~Mine(t, x)'
    BY <1>3, <1>5, <1>8, <1>9 DEF Keeps, Drops, Reclaims, Opened, Mine
  <1>11. /\ ef_vnodes' \in [Handle -> Nat] /\ ef_vnodes'[h] = 1 /\ \A x \in Handle : x # h => ef_vnodes'[x] = ef_vnodes[x]
         /\ has' \in [EmuThread -> Handle0] /\ has'[t] = h /\ \A u \in EmuThread : u # t => has'[u] = has[u]
    BY <1>1, <1>6, <1>7 DEF EmuTypes
  <1>12. EmuTypes'
    BY <1>1, <1>8, <1>11 DEF EmuTypes
  <1>13. EmuFits'
    <2>1. CallFits(t)'
      BY <1>2, <1>3, <1>8, <1>9, <1>10 DEF CallFits
    <2> QED
      BY <1>1, <1>8, <1>11, <2>1, FitsStep
  <1>14. EmuLocked' /\ EmuBusy'
    <2>1. EmuLocked'
      BY <1>1, <1>4, <1>8, LockedStep
    <2>2. EmuBusy'
      BY <1>5 DEF EmuBusy
    <2> QED
      BY <2>1, <2>2
  <1>15. ASSUME NEW u \in EmuThread, u # t
         PROVE  /\ ~Reclaims(u) /\ ~Reclaims(u)' /\ ~Shut(u) /\ ~Shut(u)' /\ (Drops(u)' <=> Drops(u)) /\ call'[u].h = call[u].h
                /\ \A x : Mine(u, x)' <=> Mine(u, x)
    BY <1>1, <1>4, <1>8, <1>15, OthersFree
  <1>16. ASSUME NEW x \in Handle
         PROVE  Counted(x)' /\ Loaded(x)' /\ Owned(x)'
    <2>1. Counted(x) /\ Loaded(x) /\ Owned(x) /\ ef_vnodes[x] \in Nat /\ Cardinality(Holding(x)) \in Nat
      BY <1>1, HoldingFinite DEF EmuOwned, EmuTypes
    <2>2. Counted(x)'
      <3>1. CASE x = h
        <4>1. Holding(x)' \subseteq Holding(x) \union {t}
          BY <1>11, <1>15 DEF Holding
        <4>2. Cardinality(Holding(x)') \in Nat /\ Cardinality(Holding(x)') <= Cardinality(Holding(x)) + 1
          BY <1>1, <4>1, HoldingGrows
        <4>3. ef_vnodes'[x] >= Cardinality(Holding(x)')
          BY <1>7, <1>11, <2>1, <3>1, <4>2 DEF Counted
        <4> QED
          BY <4>3 DEF Counted
      <3>2. CASE x # h
        <4>1. Holding(x)' \subseteq Holding(x)
          BY <1>10, <1>11, <1>15, <3>2 DEF Holding
        <4>2. Cardinality(Holding(x)') \in Nat /\ Cardinality(Holding(x)') <= Cardinality(Holding(x))
          BY <1>1, <4>1, HoldingShrinks
        <4>3. ef_vnodes'[x] >= Cardinality(Holding(x)')
          BY <1>11, <2>1, <3>2, <4>2 DEF Counted
        <4> QED
          BY <4>3 DEF Counted
      <3> QED
        BY <3>1, <3>2
    <2>3. Loaded(x)'
      BY <1>7, <1>10, <1>11, <1>15, <2>1 DEF Loaded
    <2>4. Owned(x)'
      <3>1. \A u \in EmuThread : x # h /\ Mine(u, x) => u # t
        BY <1>10 DEF Mine
      <3> QED
        BY <1>11, <1>15, <2>1, <3>1 DEF Owned
    <2> QED
      BY <2>2, <2>3, <2>4
  <1>17. ASSUME NEW u \in EmuThread
         PROVE  Reclaimed(u)'
    BY <1>10, <1>15 DEF Reclaimed
  <1>18. ASSUME NEW u \in EmuThread, NEW x \in Handle0
         PROVE  OnlyMine(u, x)'
    <2>1. OnlyMine(u, x)
      BY <1>1 DEF EmuOwned
    <2> QED
      BY <1>7, <1>10, <1>11, <1>15, <2>1 DEF OnlyMine
  <1>19. EmuOwned'
    BY <1>16, <1>17, <1>18 DEF EmuOwned
  <1> QED
    BY <1>12, <1>13, <1>14, <1>19 DEF EmuInv

\* There is no memory for the vnode: the handle stays the call's, to be closed.
LEMMA UnloadedKeeps ==
  ASSUME EmuInv, NEW t \in EmuThread, At(t, "load"), NEW r, Closes(r, call[t].outer),
         call' = [call EXCEPT ![t] = [call[t] EXCEPT !.cmd = "close", !.todo = r]],
         UNCHANGED <<e_lock, e_sem, e_result, reg, hwopen, ef_vnodes, has, gaveup>>
  PROVE  EmuInv'
  <1> DEFINE s == call[t].todo
             c == call[t]
  <1>1. EmuTypes /\ EmuFits /\ EmuLocked /\ EmuBusy /\ EmuOwned
    BY DEF EmuInv
  <1>2. s # Empty /\ First(s) = "load" /\ Fits(c.cmd, s, c.outer) /\ CallFits(t) /\ ~At(t, "wait") /\ ~At(t, "remove")
    BY <1>1, AtIs DEF EmuFits, CallFits
  <1>3. c.cmd = "open" /\ Ahead(s, "load") /\ ~Ahead(s, "wait")
    BY <1>2, LoadFits
  <1>4. e_lock = t /\ LockedIn(s)
    BY <1>1, <1>2, LockFits DEF EmuLocked
  <1>5. reg.stat = "idle" /\ e_sem = 0 /\ (\A u : ~Done(u)) /\ \A u : ~Done(u)'
    <2>1. reg.stat = "idle" /\ e_sem = 0 /\ \A u : ~Done(u)
      BY <1>1, <1>2, <1>4, Rests
    <2> QED
      BY <2>1 DEF Done
  <1>6. /\ r \in Seq(Word) /\ Fits("close", r, c.outer) /\ LockedIn(r) /\ Ahead(r, "wait")
        /\ ~Ahead(r, "load") /\ ~Ahead(r, "decref") /\ ~Ahead(r, "check") /\ ~Ahead(r, "remove")
    BY DEF Closes, IsSteps
  <1>7. /\ call' \in [EmuThread -> CallRec] /\ \A u \in EmuThread : u # t => call'[u] = call[u]
        /\ call'[t].todo = r /\ call'[t].cmd = "close" /\ call'[t].h = c.h /\ call'[t].outer = c.outer
    <2> DEFINE S == Seq(Word)
    <2>1. CallRec = [todo : S, cmd : {"none", "open", "io", "close"}, h : Handle0, outer : S, tries : Nat] /\ r \in S
      BY <1>6 DEF CallRec
    <2>2. c \in CallRec /\ call \in [EmuThread -> CallRec]
      BY <1>1 DEF EmuTypes
    <2> HIDE DEF S
    <2> DEFINE n == [c EXCEPT !.cmd = "close", !.todo = r]
    <2>3. n \in CallRec /\ n.todo = r /\ n.cmd = "close" /\ n.h = c.h /\ n.outer = c.outer
      BY <2>1, <2>2
    <2>4. call' = [call EXCEPT ![t] = n]
      OBVIOUS
    <2> HIDE DEF n
    <2>5. call'[t] = n /\ call' \in [EmuThread -> CallRec] /\ \A u \in EmuThread : u # t => call'[u] = call[u]
      BY <2>2, <2>3, <2>4
    <2> QED
      BY <2>3, <2>5
  <1>8. Keeps(t) /\ Keeps(t)' /\ ~Drops(t) /\ ~Drops(t)' /\ ~Reclaims(t) /\ ~Reclaims(t)'
    BY <1>3, <1>6, <1>7 DEF Keeps, Drops, Reclaims
  <1>9. EmuTypes'
    BY <1>1, <1>7 DEF EmuTypes
  <1>10. EmuFits'
    <2>1. CallFits(t)'
      BY <1>2, <1>3, <1>6, <1>7, <1>8 DEF CallFits
    <2> QED
      BY <1>1, <1>7, <2>1, FitsStep
  <1>11. EmuLocked'
    BY <1>1, <1>4, <1>6, <1>7, LockedStep
  <1>12. EmuBusy'
    BY <1>5 DEF EmuBusy
  <1>13. \A u \in EmuThread : /\ Keeps(u)' <=> Keeps(u)
                              /\ Drops(u)' <=> Drops(u)
                              /\ Reclaims(u)' <=> Reclaims(u)
                              /\ call'[u].h = call[u].h
    BY <1>7, <1>8, OthersSame
  <1>14. \A h : Holding(h)' = Holding(h)
    BY <1>13 DEF Holding
  <1>15. EmuOwned'
    BY <1>1, <1>5, <1>7, <1>8, <1>13, <1>14, QuietOwned
  <1> QED
    BY <1>9, <1>10, <1>11, <1>12, <1>15 DEF EmuInv

LEMMA LoadKeeps ==
  ASSUME EmuInv, NEW t \in EmuThread, Load(t)
  PROVE  EmuInv'
  <1> DEFINE c == call[t]
  <1>1. At(t, "load") /\ UNCHANGED <<e_lock, e_sem, e_result, reg, hwopen, gaveup>>
    BY DEF Load
  <1>2. CASE /\ ef_vnodes' = [ef_vnodes EXCEPT ![c.h] = ef_vnodes[c.h] + 1]
             /\ has' = [has EXCEPT ![t] = c.h] /\ Goto(t, Rest(t))
    BY <1>1, <1>2, LoadOwned
  <1>3. Closes(<<"eV">> \o emu_close \o c.outer, c.outer) /\ Closes(<<"eV", "bigV">> \o emu_close \o c.outer, c.outer)
    <2>1. Fits(c.cmd, c.todo, c.outer) /\ c.todo # Empty /\ First(c.todo) = "load"
      BY <1>1, AtIs DEF EmuInv, EmuFits, CallFits
    <2> QED
      BY <2>1, LoadFits
  <1>4. CASE /\ UNCHANGED <<ef_vnodes, has>>
             /\ \E r \in {<<"eV">> \o emu_close \o c.outer, <<"eV", "bigV">> \o emu_close \o c.outer} :
                   call' = [call EXCEPT ![t] = [c EXCEPT !.cmd = "close", !.todo = r]]
    <2>1. PICK r : Closes(r, c.outer) /\ call' = [call EXCEPT ![t] = [c EXCEPT !.cmd = "close", !.todo = r]]
      BY <1>3, <1>4, Zenon
    <2> QED
      BY <1>1, <1>4, <2>1, UnloadedKeeps
  <1>5. \/ /\ ef_vnodes' = [ef_vnodes EXCEPT ![c.h] = ef_vnodes[c.h] + 1]
           /\ has' = [has EXCEPT ![t] = c.h] /\ Goto(t, Rest(t))
        \/ /\ UNCHANGED <<ef_vnodes, has>>
           /\ \E f : call' = [call EXCEPT ![t] =
                                [c EXCEPT !.cmd = "close",
                                          !.todo = (IF f = "kmalloc" THEN <<"eV">> ELSE <<"eV", "bigV">>) \o emu_close \o c.outer]]
    BY DEF Load
  <1>6. CASE /\ UNCHANGED <<ef_vnodes, has>>
             /\ \E f : call' = [call EXCEPT ![t] =
                                [c EXCEPT !.cmd = "close",
                                          !.todo = (IF f = "kmalloc" THEN <<"eV">> ELSE <<"eV", "bigV">>) \o emu_close \o c.outer]]
    <2>1. PICK f : call' = [call EXCEPT ![t] =
                                [c EXCEPT !.cmd = "close",
                                          !.todo = (IF f = "kmalloc" THEN <<"eV">> ELSE <<"eV", "bigV">>) \o emu_close \o c.outer]]
      BY <1>6
    <2>2. CASE f = "kmalloc"
      <3>1. call' = [call EXCEPT ![t] = [c EXCEPT !.cmd = "close", !.todo = <<"eV">> \o emu_close \o c.outer]]
        BY <2>1, <2>2
      <3> QED
        BY <1>4, <1>6, <3>1, Zenon
    <2>3. CASE f # "kmalloc"
      <3>1. call' = [call EXCEPT ![t] = [c EXCEPT !.cmd = "close", !.todo = <<"eV", "bigV">> \o emu_close \o c.outer]]
        BY <2>1, <2>3
      <3> QED
        BY <1>4, <1>6, <3>1, Zenon
    <2> QED
      BY <2>2, <2>3
  <1> QED
    BY <1>2, <1>5, <1>6

\* A call goes on with some steps of its kind.
LEMMA GoesOn ==
  ASSUME EmuInv, NEW t \in EmuThread, NEW r, Goto(t, r), IsSteps(r), Fits(call[t].cmd, r, call[t].outer), call[t].cmd = "close",
         LockedIn(r) <=> LockedIn(call[t].todo), call[t].h \in Handle, ~Ahead(r, "load"),
         ef_vnodes' \in [Handle -> Nat], UNCHANGED <<e_lock, e_sem, e_result, reg, hwopen, has>>, ~At(t, "wait"),
         First(r) # "wait"
  PROVE  /\ EmuTypes' /\ EmuFits' /\ EmuLocked' /\ EmuBusy'
         /\ \A u \in EmuThread : u # t => call'[u] = call[u]
         /\ call'[t].todo = r /\ call'[t].cmd = "close" /\ call'[t].h = call[t].h
         /\ ~Done(t) /\ ~Done(t)'
         /\ \A u \in EmuThread : Done(u)' <=> Done(u)
  <1>1. EmuTypes /\ EmuFits /\ EmuLocked /\ EmuBusy /\ call \in [EmuThread -> CallRec] /\ CallFits(t)
    BY DEF EmuInv, EmuTypes, EmuFits
  <1>2. /\ call' \in [EmuThread -> CallRec] /\ \A u \in EmuThread : u # t => call'[u] = call[u]
        /\ call'[t].todo = r /\ call'[t].cmd = "close" /\ call'[t].h = call[t].h /\ call'[t].outer = call[t].outer
    BY <1>1, GotoIs, StepsNotEmpty DEF Going
  <1>3. EmuTypes'
    BY <1>1, <1>2 DEF EmuTypes
  <1>4. EmuFits'
    <2>1. CallFits(t)'
      BY <1>1, <1>2 DEF CallFits
    <2> QED
      BY <1>1, <1>2, <2>1, FitsStep
  <1>5. EmuLocked'
    BY <1>1, <1>2, LockedStep
  <1>6. ~At(t, "wait")'
    BY <1>2, AtIs
  <1>7. ~Done(t) /\ ~Done(t)'
    BY <1>6 DEF Done
  <1>8. \A u \in EmuThread : Done(u)' <=> Done(u)
    BY <1>2, <1>7, OthersSame DEF Done
  <1>9. EmuBusy'
    <2>1. CASE e_lock \in EmuThread /\ e_lock # t
      BY <1>1, <1>2, <2>1, BusySame
    <2>2. CASE e_lock = t \/ e_lock = NoHolder
      <3>1. reg.stat = "idle" /\ e_sem = 0
        BY <1>1, <2>2, Rests
      <3> QED
        BY <3>1 DEF EmuBusy
    <2> QED
      BY <1>1, <2>1, <2>2 DEF EmuTypes
  <1> QED
    BY <1>2, <1>3, <1>4, <1>5, <1>7, <1>8, <1>9

LEMMA DecrefKeeps ==
  ASSUME EmuInv, NEW t \in EmuThread, Decref(t)
  PROVE  EmuInv'
  <1> DEFINE s == call[t].todo
             c == call[t]
             h == call[t].h
  <1>1. EmuTypes /\ EmuFits /\ EmuLocked /\ EmuBusy /\ EmuOwned
    BY DEF EmuInv
  <1>2. /\ s # Empty /\ First(s) = "decref" /\ Fits(c.cmd, s, c.outer) /\ CallFits(t) /\ ~At(t, "wait") /\ ~At(t, "remove")
        /\ UNCHANGED <<e_lock, e_sem, e_result, reg, hwopen, has, gaveup>>
        /\ \/ ef_vnodes[h] > 1 /\ ef_vnodes' = [ef_vnodes EXCEPT ![h] = ef_vnodes[h] - 1] /\ Goto(t, Then(s))
           \/ ef_vnodes' = ef_vnodes /\ Goto(t, emufs_reclaim \o Then(s))
    <2>1. At(t, "decref")
      BY DEF Decref
    <2>2. s # Empty /\ First(s) = "decref" /\ Fits(c.cmd, s, c.outer) /\ CallFits(t) /\ ~At(t, "wait") /\ ~At(t, "remove")
      BY <1>1, <2>1, AtIs DEF EmuFits, CallFits
    <2>3. Rest(t) = Then(s)
      BY DEF Rest, Then
    <2>4. UNCHANGED <<e_lock, e_sem, e_result, reg, hwopen, has, gaveup>>
      BY DEF Decref
    <2>5. \/ ef_vnodes[h] > 1 /\ ef_vnodes' = [ef_vnodes EXCEPT ![h] = ef_vnodes[h] - 1] /\ Goto(t, Rest(t))
          \/ ef_vnodes' = ef_vnodes /\ Goto(t, emufs_reclaim \o Rest(t))
      BY DEF Decref
    <2>6. \/ ef_vnodes[h] > 1 /\ ef_vnodes' = [ef_vnodes EXCEPT ![h] = ef_vnodes[h] - 1] /\ Goto(t, Then(s))
          \/ ef_vnodes' = ef_vnodes /\ Goto(t, emufs_reclaim \o Then(s))
      BY <2>3, <2>5, Zenon
    <2> QED
      BY <2>2, <2>4, <2>6, Zenon
  <1>3. /\ c.cmd = "close" /\ Ahead(s, "decref") /\ Then(s) # Empty /\ \A w \in Telling : ~Ahead(Then(s), w)
        /\ ~Ahead(s, "wait") /\ ~Ahead(s, "remove") /\ ~Ahead(s, "load") /\ LastOf(emufs_reclaim \o Then(s), c.outer)
    BY <1>2, DropFits
  <1>4. /\ ~LockedIn(s) /\ ~LockedIn(Then(s)) /\ e_lock # t /\ IsSteps(Then(s)) /\ Fits(c.cmd, Then(s), c.outer)
    BY <1>1, <1>2, <1>3, LockFits, FitsNext DEF EmuLocked
  <1>5. ~Keeps(t) /\ Drops(t) /\ ~Reclaims(t) /\ h \in Handle
    BY <1>2, <1>3 DEF Keeps, Drops, Reclaims, CallFits
  <1>6. ASSUME NEW r, LastOf(r, c.outer), ef_vnodes' = ef_vnodes, Goto(t, r)
        PROVE  EmuInv'
    <2>1. /\ IsSteps(r) /\ r # Empty /\ Fits("close", r, c.outer) /\ ~LockedIn(r) /\ First(r) = "bigP"
          /\ Ahead(r, "check") /\ Ahead(r, "remove") /\ ~Ahead(r, "load")
      BY <1>6 DEF LastOf
    <2>2. ef_vnodes' \in [Handle -> Nat] /\ First(r) # "wait"
      BY <1>1, <1>6, <2>1 DEF EmuTypes
    <2>3. /\ EmuTypes' /\ EmuFits' /\ EmuLocked' /\ EmuBusy'
          /\ \A u \in EmuThread : u # t => call'[u] = call[u]
          /\ call'[t].todo = r /\ call'[t].cmd = "close" /\ call'[t].h = h /\ ~Done(t)
          /\ \A u \in EmuThread : Done(u)' <=> Done(u)
      BY <1>2, <1>3, <1>4, <1>5, <1>6, <2>1, <2>2, GoesOn
    <2>4. ~Keeps(t)' /\ Drops(t)' /\ ~Reclaims(t)'
      BY <2>1, <2>3 DEF Keeps, Drops, Reclaims
    <2>5. \A u \in EmuThread : /\ Keeps(u)' <=> Keeps(u)
                               /\ Drops(u)' <=> Drops(u)
                               /\ Reclaims(u)' <=> Reclaims(u)
                               /\ call'[u].h = call[u].h
      BY <1>5, <2>3, <2>4, OthersSame
    <2>6. \A x : Holding(x)' = Holding(x)
      BY <1>2, <2>5 DEF Holding
    <2>7. EmuOwned'
      BY <1>1, <1>2, <1>5, <1>6, <2>3, <2>5, <2>6, QuietOwned
    <2> QED
      BY <2>3, <2>7 DEF EmuInv
  <1>7. CASE ef_vnodes[h] > 1 /\ ef_vnodes' = [ef_vnodes EXCEPT ![h] = ef_vnodes[h] - 1] /\ Goto(t, Then(s))
    <2>1. /\ ~Ahead(Then(s), "load") /\ ~Ahead(Then(s), "wait") /\ ~Ahead(Then(s), "remove") /\ ~Ahead(Then(s), "decref")
      BY <1>3 DEF Telling
    <2>2. First(Then(s)) # "wait"
      BY <1>4, <2>1, AheadIn
    <2>3. /\ ef_vnodes' \in [Handle -> Nat] /\ ef_vnodes'[h] = ef_vnodes[h] - 1 /\ \A x \in Handle : x # h => ef_vnodes'[x] = ef_vnodes[x]
          /\ ef_vnodes[h] \in Nat
      BY <1>1, <1>5, <1>7 DEF EmuTypes
    <2>4. /\ EmuTypes' /\ EmuFits' /\ EmuLocked' /\ EmuBusy'
          /\ \A u \in EmuThread : u # t => call'[u] = call[u]
          /\ call'[t].todo = Then(s) /\ call'[t].cmd = "close" /\ call'[t].h = h /\ ~Done(t) /\ ~Done(t)'
          /\ \A u \in EmuThread : Done(u)' <=> Done(u)
      BY <1>2, <1>3, <1>4, <1>5, <1>7, <2>1, <2>2, <2>3, GoesOn
    <2>5. ~Keeps(t)' /\ ~Drops(t)' /\ ~Reclaims(t)'
      BY <2>1, <2>4 DEF Keeps, Drops, Reclaims
    <2>6. \A u \in EmuThread : /\ Keeps(u)' <=> Keeps(u)
                               /\ u # t => (Drops(u)' <=> Drops(u))
                               /\ Reclaims(u)' <=> Reclaims(u)
                               /\ call'[u].h = call[u].h
                               /\ call'[u].cmd = call[u].cmd
      BY <1>3, <1>5, <2>4, <2>5, OthersSame
    <2>7. ASSUME NEW u \in EmuThread
          PROVE  /\ Shut(u)' <=> Shut(u)
                 /\ \A x : Mine(u, x)' <=> Mine(u, x)
                 /\ Reclaims(u) => call[u].h # h /\ call[u].h \in Handle /\ (Gone(u)' <=> Gone(u))
      <3>1. Reclaims(u) => call[u].h # h
        BY <1>1, <1>7, <2>3 DEF EmuOwned, Reclaimed
      <3>2. Reclaims(u) => call[u].h \in Handle
        BY <1>1 DEF EmuFits, CallFits, Reclaims, Drops
      <3>3. Reclaims(u) => (Gone(u)' <=> Gone(u))
        BY <1>5, <2>4, OthersSame DEF Gone
      <3>4. /\ Shut(u)' <=> Shut(u)
            /\ \A x : Mine(u, x)' <=> Mine(u, x)
        BY <1>2, <2>4, <2>6 DEF Shut, Mine, Opened
      <3> QED
        BY <3>1, <3>2, <3>3, <3>4
    <2>8. ASSUME NEW x \in Handle
          PROVE  Counted(x)' /\ Loaded(x)' /\ Owned(x)'
      <3>1. Counted(x) /\ Loaded(x) /\ Owned(x) /\ ef_vnodes[x] \in Nat
        BY <1>1 DEF EmuOwned, EmuTypes
      <3>2. CASE x = h
        <4>1. t \in Holding(x) /\ Holding(x)' = Holding(x) \ {t}
          <5>1. has[t] = EMU_ROOTHANDLE /\ EMU_ROOTHANDLE \notin Handle
            BY <1>2, <1>3, EmuAssumption DEF CallFits
          <5> QED
            BY <1>2, <1>5, <2>5, <2>6, <3>2, <5>1 DEF Holding
        <4>2. IsFiniteSet(Holding(x)) /\ Cardinality(Holding(x)) \in Nat
          BY <1>1, HoldingFinite
        <4>3. Cardinality(Holding(x)') = Cardinality(Holding(x)) - 1
          BY <4>1, <4>2, FS_RemoveElement
        <4>4. ef_vnodes'[x] >= Cardinality(Holding(x)')
          BY <2>3, <3>1, <3>2, <4>2, <4>3 DEF Counted
        <4>5. Counted(x)'
          BY <4>4 DEF Counted
        <4>6. ef_vnodes'[x] > 0 /\ ef_vnodes[x] > 0
          BY <1>7, <2>3, <3>2
        <4> QED
          BY <1>2, <2>6, <3>1, <4>5, <4>6 DEF Loaded, Owned
      <3>3. CASE x # h
        <4>1. Holding(x)' = Holding(x)
          BY <1>2, <2>5, <2>6, <3>3 DEF Holding
        <4>2. ef_vnodes'[x] = ef_vnodes[x]
          BY <2>3, <3>3
        <4> QED
          BY <1>2, <2>6, <2>7, <3>1, <4>1, <4>2 DEF Counted, Loaded, Owned
      <3> QED
        BY <3>2, <3>3
    <2>9. ASSUME NEW u \in EmuThread
          PROVE  Reclaimed(u)'
      BY <1>1, <1>2, <2>3, <2>6, <2>7 DEF EmuOwned, Reclaimed
    <2>10. ASSUME NEW u \in EmuThread, NEW x \in Handle0
           PROVE  OnlyMine(u, x)'
      <3>1. OnlyMine(u, x)
        BY <1>1 DEF EmuOwned
      <3>2. Mine(u, x) => x # h
        BY <1>7, <2>3, <3>1 DEF OnlyMine
      <3> QED
        BY <1>2, <2>3, <2>7, <3>1, <3>2 DEF OnlyMine
    <2>11. EmuOwned'
      BY <2>8, <2>9, <2>10 DEF EmuOwned
    <2> QED
      BY <2>4, <2>11 DEF EmuInv
  <1>8. CASE ef_vnodes' = ef_vnodes /\ Goto(t, emufs_reclaim \o Then(s))
    BY <1>3, <1>6, <1>8, Zenon
  <1> QED
    BY <1>2, <1>7, <1>8, Zenon

LEMMA CheckKeeps ==
  ASSUME EmuInv, NEW t \in EmuThread, CheckCount(t)
  PROVE  EmuInv'
  <1> DEFINE s == call[t].todo
             c == call[t]
             h == call[t].h
  <1>1. EmuTypes /\ EmuFits /\ EmuLocked /\ EmuBusy /\ EmuOwned
    BY DEF EmuInv
  <1>2. /\ s # Empty /\ First(s) = "check" /\ Fits(c.cmd, s, c.outer) /\ CallFits(t) /\ ~At(t, "wait") /\ ~At(t, "remove")
        /\ UNCHANGED <<e_lock, e_sem, e_result, reg, hwopen, ef_vnodes, has, gaveup>>
        /\ \/ ef_vnodes[h] = 1 /\ Goto(t, Then(s))
           \/ Goto(t, <<"eV", "bigV">> \o c.outer)
    <2>1. At(t, "check") /\ UNCHANGED <<e_lock, e_sem, e_result, reg, hwopen, ef_vnodes, has, gaveup>>
      BY DEF CheckCount
    <2>2. s # Empty /\ First(s) = "check" /\ Fits(c.cmd, s, c.outer) /\ CallFits(t) /\ ~At(t, "wait") /\ ~At(t, "remove")
      BY <1>1, <2>1, AtIs DEF EmuFits, CallFits
    <2>3. Rest(t) = Then(s)
      BY DEF Rest, Then
    <2>4. \/ ef_vnodes[h] = 1 /\ Goto(t, Rest(t))
          \/ Goto(t, <<"eV", "bigV">> \o c.outer)
      <3>1. CASE ef_vnodes[h] = 1
        BY <3>1, Zenon DEF CheckCount
      <3>2. CASE ef_vnodes[h] # 1
        BY <3>2, Zenon DEF CheckCount
      <3> QED
        BY <3>1, <3>2, Zenon
    <2>5. \/ ef_vnodes[h] = 1 /\ Goto(t, Then(s))
          \/ Goto(t, <<"eV", "bigV">> \o c.outer)
      BY <2>3, <2>4, Zenon
    <2> QED
      BY <2>1, <2>2, <2>5, Zenon
  <1>3. /\ c.cmd = "close" /\ Ahead(s, "remove") /\ Ahead(s, "check") /\ Then(s) # Empty
        /\ Ahead(Then(s), "remove") /\ ~Ahead(Then(s), "check") /\ ~Ahead(Then(s), "load") /\ First(Then(s)) = "op"
        /\ Ending("close", <<"eV", "bigV">> \o c.outer, c.outer)
    BY <1>2, DropFits
  <1>4. /\ LockedIn(s) /\ LockedIn(Then(s)) /\ e_lock = t /\ IsSteps(Then(s)) /\ Fits(c.cmd, Then(s), c.outer)
    BY <1>1, <1>2, <1>3, LockFits, FitsNext DEF EmuLocked
  <1>5. ~Keeps(t) /\ Drops(t) /\ ~Reclaims(t) /\ h \in Handle
    BY <1>2, <1>3 DEF Keeps, Drops, Reclaims, CallFits
  <1>9. ef_vnodes' \in [Handle -> Nat]
    BY <1>1, <1>2 DEF EmuTypes
  <1>6. ASSUME NEW r, Ending("close", r, c.outer), Goto(t, r)
        PROVE  EmuInv'
    <2>1. /\ IsSteps(r) /\ r # Empty /\ Fits("close", r, c.outer) /\ LockedIn(r) /\ First(r) = "eV"
          /\ ~Ahead(r, "wait") /\ ~Ahead(r, "remove") /\ ~Ahead(r, "load") /\ ~Ahead(r, "decref")
      BY <1>6 DEF Ending, Telling
    <2>3. /\ EmuTypes' /\ EmuFits' /\ EmuLocked' /\ EmuBusy'
          /\ \A u \in EmuThread : u # t => call'[u] = call[u]
          /\ call'[t].todo = r /\ call'[t].cmd = "close" /\ call'[t].h = h /\ ~Done(t)
          /\ \A u \in EmuThread : Done(u)' <=> Done(u)
      BY <1>2, <1>3, <1>4, <1>5, <1>6, <1>9, <2>1, GoesOn
    <2>4. ~Keeps(t)' /\ ~Drops(t)' /\ ~Reclaims(t)'
      BY <2>1, <2>3 DEF Keeps, Drops, Reclaims
    <2>5. \A u \in EmuThread : /\ Keeps(u)' <=> Keeps(u)
                               /\ Drops(u)' => Drops(u)
                               /\ Reclaims(u)' <=> Reclaims(u)
                               /\ call'[u].h = call[u].h
      BY <1>5, <2>3, <2>4, OthersSame
    <2>6. \A x : Holding(x)' \subseteq Holding(x)
      BY <1>2, <2>5 DEF Holding
    <2>7. EmuOwned'
      BY <1>1, <1>2, <1>5, <2>3, <2>5, <2>6, QuietOwned
    <2> QED
      BY <2>3, <2>7 DEF EmuInv
  <1>7. CASE ef_vnodes[h] = 1 /\ Goto(t, Then(s))
    <2>1. /\ EmuTypes' /\ EmuFits' /\ EmuLocked' /\ EmuBusy'
          /\ \A u \in EmuThread : u # t => call'[u] = call[u]
          /\ call'[t].todo = Then(s) /\ call'[t].cmd = "close" /\ call'[t].h = h /\ ~Done(t) /\ ~Done(t)'
      BY <1>2, <1>3, <1>4, <1>5, <1>7, <1>9, GoesOn
    <2>2. ~Keeps(t)' /\ Drops(t)' /\ Reclaims(t)' /\ ~At(t, "remove")'
      BY <1>3, <2>1, AtIs DEF Keeps, Drops, Reclaims
    <2>3. ASSUME NEW u \in EmuThread, u # t
          PROVE  /\ ~Reclaims(u) /\ ~Reclaims(u)' /\ ~Shut(u) /\ ~Shut(u)' /\ (Drops(u)' <=> Drops(u)) /\ call'[u].h = call[u].h
                 /\ \A x : Mine(u, x)' <=> Mine(u, x)
      BY <1>1, <1>2, <1>4, <2>1, <2>3, OthersFree
    <2>4. \A x : ~Mine(t, x) /\ ~Mine(t, x)'
      BY <1>3, <1>5, <2>1, <2>2 DEF Mine, Opened
    <2>5. h \in hwopen
      <3>1. Loaded(h)
        BY <1>1, <1>5 DEF EmuOwned
      <3> QED
        BY <1>5, <1>7, <2>3, <3>1 DEF Loaded
    <2>6. \A x : Holding(x)' = Holding(x)
      BY <1>2, <1>5, <2>1, <2>2, <2>3 DEF Holding
    <2>7. ASSUME NEW x \in Handle
          PROVE  Counted(x)' /\ Loaded(x)' /\ Owned(x)'
      <3>1. Counted(x) /\ Loaded(x) /\ Owned(x)
        BY <1>1 DEF EmuOwned
      <3>2. Counted(x)'
        BY <1>2, <2>6, <3>1 DEF Counted
      <3>3. Loaded(x)'
        BY <1>2, <1>5, <2>3, <3>1 DEF Loaded
      <3>4. Owned(x)'
        BY <1>2, <2>3, <2>4, <3>1 DEF Owned
      <3> QED
        BY <3>2, <3>3, <3>4
    <2>8. ASSUME NEW u \in EmuThread
          PROVE  Reclaimed(u)'
      BY <1>2, <1>7, <2>1, <2>2, <2>3, <2>5 DEF Reclaimed, Gone
    <2>9. ASSUME NEW u \in EmuThread, NEW x \in Handle0
          PROVE  OnlyMine(u, x)'
      <3>1. OnlyMine(u, x)
        BY <1>1 DEF EmuOwned
      <3> QED
        BY <1>2, <2>3, <2>4, <3>1 DEF OnlyMine
    <2>10. EmuOwned'
      BY <2>7, <2>8, <2>9 DEF EmuOwned
    <2> QED
      BY <2>1, <2>10 DEF EmuInv
  <1>8. CASE Goto(t, <<"eV", "bigV">> \o c.outer)
    BY <1>3, <1>6, <1>8, Zenon
  <1> QED
    BY <1>2, <1>7, <1>8, Zenon

\* The vnode goes with its last reference.
LEMMA RemoveKeeps ==
  ASSUME EmuInv, NEW t \in EmuThread, RemoveVnode(t)
  PROVE  EmuInv'
  <1> DEFINE s == call[t].todo
             c == call[t]
             h == call[t].h
  <1>1. EmuTypes /\ EmuFits /\ EmuLocked /\ EmuBusy /\ EmuOwned
    BY DEF EmuInv
  <1>2. /\ s # Empty /\ First(s) = "remove" /\ Fits(c.cmd, s, c.outer) /\ CallFits(t) /\ ~At(t, "wait") /\ At(t, "remove")
        /\ UNCHANGED <<e_lock, e_sem, e_result, reg, hwopen, has, gaveup>>
        /\ ef_vnodes' = [ef_vnodes EXCEPT ![h] = 0] /\ Goto(t, Then(s))
    <2>1. /\ At(t, "remove") /\ UNCHANGED <<e_lock, e_sem, e_result, reg, hwopen, has, gaveup>>
          /\ ef_vnodes' = [ef_vnodes EXCEPT ![h] = 0] /\ Goto(t, Rest(t))
      BY DEF RemoveVnode
    <2>2. s # Empty /\ First(s) = "remove" /\ Fits(c.cmd, s, c.outer) /\ CallFits(t) /\ ~At(t, "wait")
      BY <1>1, <2>1, AtIs DEF EmuFits, CallFits
    <2>3. Rest(t) = Then(s)
      BY DEF Rest, Then
    <2> QED
      BY <2>1, <2>2, <2>3, Zenon
  <1>3. /\ c.cmd = "close" /\ Ahead(s, "remove") /\ ~Ahead(s, "check") /\ Then(s) # Empty /\ First(Then(s)) = "eV"
        /\ \A w \in Telling : ~Ahead(Then(s), w)
    BY <1>2, DropFits
  <1>4. /\ LockedIn(s) /\ LockedIn(Then(s)) /\ e_lock = t /\ IsSteps(Then(s)) /\ Fits(c.cmd, Then(s), c.outer)
    BY <1>1, <1>2, <1>3, LockFits, FitsNext DEF EmuLocked
  <1>5. /\ ~Keeps(t) /\ Drops(t) /\ Reclaims(t) /\ h \in Handle /\ ef_vnodes[h] = 1 /\ h \notin hwopen
    <2>1. ~Keeps(t) /\ Drops(t) /\ Reclaims(t) /\ h \in Handle
      BY <1>2, <1>3 DEF Keeps, Drops, Reclaims, CallFits
    <2> QED
      BY <1>1, <1>2, <2>1 DEF EmuOwned, Reclaimed, Gone
  <1>6. /\ ef_vnodes' \in [Handle -> Nat] /\ ef_vnodes'[h] = 0 /\ \A x \in Handle : x # h => ef_vnodes'[x] = ef_vnodes[x]
    BY <1>1, <1>2, <1>5 DEF EmuTypes
  <1>7. ~Ahead(Then(s), "load") /\ ~Ahead(Then(s), "wait") /\ ~Ahead(Then(s), "remove") /\ ~Ahead(Then(s), "decref")
    BY <1>3 DEF Telling
  <1>8. /\ EmuTypes' /\ EmuFits' /\ EmuLocked' /\ EmuBusy'
        /\ \A u \in EmuThread : u # t => call'[u] = call[u]
        /\ call'[t].todo = Then(s) /\ call'[t].cmd = "close" /\ call'[t].h = h
    BY <1>2, <1>3, <1>4, <1>5, <1>6, <1>7, GoesOn
  <1>9. ~Keeps(t)' /\ ~Drops(t)' /\ ~Reclaims(t)'
    BY <1>7, <1>8 DEF Keeps, Drops, Reclaims
  <1>10. ASSUME NEW u \in EmuThread, u # t
         PROVE  /\ ~Reclaims(u) /\ ~Reclaims(u)' /\ ~Shut(u) /\ ~Shut(u)' /\ (Drops(u)' <=> Drops(u)) /\ call'[u].h = call[u].h
                /\ \A x : Mine(u, x)' <=> Mine(u, x)
    BY <1>1, <1>2, <1>4, <1>8, <1>10, OthersFree
  <1>11. \A x : ~Mine(t, x) /\ ~Mine(t, x)'
    BY <1>3, <1>5, <1>8, <1>9 DEF Mine, Opened
  <1>12. ASSUME NEW x \in Handle, x = h
         PROVE  Cardinality(Holding(x)') = 0
    <2>1. t \in Holding(x) /\ Holding(x)' = Holding(x) \ {t}
      <3>1. has[t] = EMU_ROOTHANDLE /\ EMU_ROOTHANDLE \notin Handle
        BY <1>2, <1>3, EmuAssumption DEF CallFits
      <3> QED
        BY <1>2, <1>5, <1>9, <1>10, <1>12, <3>1 DEF Holding
    <2>2. IsFiniteSet(Holding(x)) /\ Cardinality(Holding(x)) \in Nat
      BY <1>1, HoldingFinite
    <2>3. Cardinality(Holding(x)') = Cardinality(Holding(x)) - 1 /\ IsFiniteSet(Holding(x)')
      BY <2>1, <2>2, FS_RemoveElement
    <2>4. Cardinality(Holding(x)') \in Nat
      BY <2>3, FS_CardinalityType
    <2>5. Cardinality(Holding(x)) <= 1
      BY <1>1, <1>5, <1>12, <2>2 DEF EmuOwned, Counted
    <2> QED
      BY <2>2, <2>3, <2>4, <2>5
  <1>13. ASSUME NEW x \in Handle
         PROVE  Counted(x)' /\ Loaded(x)' /\ Owned(x)'
    <2>1. Counted(x) /\ Loaded(x) /\ Owned(x)
      BY <1>1 DEF EmuOwned
    <2>2. CASE x = h
      <3>1. ef_vnodes'[x] = 0 /\ Cardinality(Holding(x)') = 0 /\ x \notin hwopen'
        BY <1>2, <1>5, <1>6, <1>12, <2>2
      <3>2. Counted(x)'
        BY <3>1 DEF Counted
      <3> QED
        BY <3>1, <3>2 DEF Loaded, Owned
    <2>3. CASE x # h
      <3>1. ef_vnodes'[x] = ef_vnodes[x] /\ Holding(x)' = Holding(x)
        BY <1>2, <1>6, <1>9, <1>10, <2>3 DEF Holding
      <3>2. Counted(x)'
        BY <2>1, <3>1 DEF Counted
      <3>3. Loaded(x)'
        BY <1>2, <1>10, <2>1, <2>3, <3>1 DEF Loaded
      <3>4. Owned(x)'
        BY <1>2, <1>10, <1>11, <2>1, <3>1 DEF Owned
      <3> QED
        BY <3>2, <3>3, <3>4
    <2> QED
      BY <2>2, <2>3
  <1>14. ASSUME NEW u \in EmuThread
         PROVE  Reclaimed(u)'
    BY <1>9, <1>10 DEF Reclaimed
  <1>15. ASSUME NEW u \in EmuThread, NEW x \in Handle0
         PROVE  OnlyMine(u, x)'
    <2>1. OnlyMine(u, x)
      BY <1>1 DEF EmuOwned
    <2> QED
      BY <1>2, <1>6, <1>10, <1>11, <2>1 DEF OnlyMine
  <1>16. EmuOwned'
    BY <1>13, <1>14, <1>15 DEF EmuOwned
  <1> QED
    BY <1>8, <1>16 DEF EmuInv

LEMMA TwoOf ==
  ASSUME NEW t, NEW u, t # u
  PROVE  Cardinality({t, u}) = 2
  <1>1. IsFiniteSet({t}) /\ Cardinality({t}) = 1
    BY FS_Singleton
  <1>2. Cardinality({t} \union {u}) = 2
    BY <1>1, FS_AddElement
  <1>3. {t} \union {u} = {t, u}
    OBVIOUS
  <1> QED
    BY <1>2, <1>3

\* A thread without a call holds nothing but its reference.
LEMMA Resting ==
  ASSUME EmuInv, NEW t \in EmuThread, call[t] = NoCall
  PROVE  /\ ~Keeps(t) /\ ~Drops(t) /\ ~Reclaims(t) /\ e_lock # t /\ ~Done(t) /\ (\A w : ~At(t, w)) /\ ~LockedIn(call[t].todo)
         /\ call[t].todo = Empty /\ call[t].cmd = "none" /\ \A x : ~Mine(t, x)
  <1>1. call[t].todo = Empty /\ call[t].cmd = "none"
    BY NoCallIs
  <1>2. ~LockedIn(call[t].todo) /\ e_lock # t
    BY <1>1, NothingAhead DEF EmuInv, EmuLocked
  <1>3. \A w : ~At(t, w)
    BY <1>1, AtIs
  <1> QED
    BY <1>1, <1>2, <1>3 DEF Keeps, Drops, Reclaims, Done, Mine, Opened

LEMMA IncrefKeeps ==
  ASSUME EmuInv, NEW t \in EmuThread, NEW u \in EmuThread, VOP_INCREF(t, u)
  PROVE  EmuInv'
  <1> DEFINE h == has[t]
  <1>1. EmuTypes /\ EmuFits /\ EmuLocked /\ EmuBusy /\ EmuOwned
    BY DEF EmuInv
  <1>2. /\ h # EMU_ROOTHANDLE /\ call[t] = NoCall /\ has[u] = EMU_ROOTHANDLE /\ call[u] = NoCall
        /\ has' = [has EXCEPT ![u] = h] /\ ef_vnodes' = [ef_vnodes EXCEPT ![h] = ef_vnodes[h] + 1]
        /\ UNCHANGED <<e_lock, e_sem, e_result, reg, hwopen, call, gaveup>>
    BY DEF VOP_INCREF
  <1>3. h \in Handle /\ EMU_ROOTHANDLE \notin Handle
    BY <1>1, <1>2, EmuAssumption DEF EmuTypes, Handle0
  <1>4. /\ ef_vnodes' \in [Handle -> Nat] /\ ef_vnodes'[h] = ef_vnodes[h] + 1 /\ \A x \in Handle : x # h => ef_vnodes'[x] = ef_vnodes[x]
        /\ has' \in [EmuThread -> Handle0] /\ has'[u] = h /\ \A v \in EmuThread : v # u => has'[v] = has[v]
    BY <1>1, <1>2, <1>3 DEF EmuTypes, Handle0
  <1>5. EmuTypes'
    BY <1>1, <1>2, <1>4 DEF EmuTypes
  <1>6. ASSUME NEW v \in EmuThread
        PROVE  /\ Keeps(v)' <=> Keeps(v)
               /\ Drops(v)' <=> Drops(v)
               /\ Reclaims(v)' <=> Reclaims(v)
               /\ Gone(v)' <=> Gone(v)
               /\ Shut(v)' <=> Shut(v)
               /\ \A x : Mine(v, x)' <=> Mine(v, x)
    <2>1. /\ Keeps(v)' <=> Keeps(v)
          /\ Drops(v)' <=> Drops(v)
          /\ Reclaims(v)' <=> Reclaims(v)
          /\ \A w : At(v, w)' <=> At(v, w)
      BY <1>2, OthersSame
    <2> QED
      BY <1>2, <2>1 DEF Gone, Done, Shut, Mine, Opened
  <1>7. EmuFits'
    <2>1. CallFits(u)'
      <3>1. call'[u] = NoCall /\ call'[u].todo = Empty /\ call'[u].cmd = "none" /\ ~Keeps(u)' /\ ~Drops(u)'
        BY <1>2, <1>6, Resting
      <3>2. Fits("none", Empty, call'[u].outer) /\ ~Ahead(Empty, "load")
        BY NothingAhead DEF Fits, Empty
      <3> QED
        BY <3>1, <3>2 DEF CallFits
    <2> QED
      BY <1>1, <1>2, <1>4, <2>1, FitsStep
  <1>8. EmuLocked' /\ EmuBusy'
    <2>1. EmuLocked'
      BY <1>1, <1>2 DEF EmuLocked
    <2> QED
      BY <1>1, <1>2, <2>1, BusySame
  <1>9. IsFiniteSet(Holding(h)) /\ Cardinality(Holding(h)) \in Nat /\ t \in Holding(h) /\ ef_vnodes[h] >= Cardinality(Holding(h))
        /\ ef_vnodes[h] \in Nat
    BY <1>1, <1>3, HoldingFinite DEF EmuOwned, Counted, Holding, EmuTypes
  <1>10. ef_vnodes[h] >= 1
    <2>1. Cardinality(Holding(h)) # 0
      BY <1>9, FS_EmptySet
    <2> QED
      BY <1>9, <2>1
  <1>11. ASSUME NEW v \in EmuThread, Reclaims(v)
         PROVE  call[v].h # h /\ call[v].h \in Handle
    <2>1. call[v].h \in Handle /\ Drops(v)
      BY <1>1, <1>11 DEF EmuFits, CallFits, Reclaims, Drops
    <2>2. ASSUME call[v].h = h
          PROVE  FALSE
      <3>1. v # t /\ v \in Holding(h)
        BY <1>2, <1>11, <2>1, <2>2, Resting DEF Holding
      <3>2. {t, v} \subseteq Holding(h) /\ Cardinality({t, v}) = 2
        BY <1>9, <3>1, TwoOf
      <3>3. Cardinality(Holding(h)) >= 2
        BY <1>9, <3>2, FS_Subset
      <3>4. ef_vnodes[h] = 1
        BY <1>1, <1>11, <2>2 DEF EmuOwned, Reclaimed
      <3> QED
        BY <1>9, <3>3, <3>4
    <2> QED
      BY <2>1, <2>2
  <1>12. ASSUME NEW x \in Handle
         PROVE  Counted(x)' /\ Loaded(x)' /\ Owned(x)'
    <2>1. Counted(x) /\ Loaded(x) /\ Owned(x) /\ ef_vnodes[x] \in Nat
      BY <1>1 DEF EmuOwned, EmuTypes
    <2>2. CASE x = h
      <3>1. Holding(x)' \subseteq Holding(x) \union {u}
        BY <1>2, <1>4, <1>6 DEF Holding
      <3>2. Cardinality(Holding(x)') \in Nat /\ Cardinality(Holding(x)') <= Cardinality(Holding(x)) + 1
        BY <1>1, <3>1, HoldingGrows
      <3>3. ef_vnodes'[x] >= Cardinality(Holding(x)') /\ ef_vnodes'[x] > 0 /\ ef_vnodes[x] > 0
        BY <1>4, <1>9, <1>10, <2>2, <3>2
      <3>4. Counted(x)'
        BY <3>3 DEF Counted
      <3> QED
        BY <1>2, <1>6, <2>1, <3>3, <3>4 DEF Loaded, Owned
    <2>3. CASE x # h
      <3>1. ef_vnodes'[x] = ef_vnodes[x] /\ Holding(x)' = Holding(x)
        <4>1. x # EMU_ROOTHANDLE
          BY <1>3
        <4> QED
          BY <1>2, <1>4, <1>6, <2>3, <4>1 DEF Holding
      <3> QED
        BY <1>2, <1>6, <2>1, <3>1 DEF Counted, Loaded, Owned
    <2> QED
      BY <2>2, <2>3
  <1>13. ASSUME NEW v \in EmuThread
         PROVE  Reclaimed(v)'
    BY <1>1, <1>2, <1>4, <1>6, <1>11 DEF EmuOwned, Reclaimed
  <1>14. ASSUME NEW v \in EmuThread, NEW x \in Handle0
         PROVE  OnlyMine(v, x)'
    <2>1. OnlyMine(v, x)
      BY <1>1 DEF EmuOwned
    <2>2. Mine(v, x) => x # h
      BY <1>9, <1>10, <2>1 DEF OnlyMine
    <2> QED
      BY <1>2, <1>4, <1>6, <2>1, <2>2 DEF OnlyMine
  <1>15. EmuOwned'
    BY <1>12, <1>13, <1>14 DEF EmuOwned
  <1> QED
    BY <1>5, <1>7, <1>8, <1>15 DEF EmuInv

LEMMA BeginKeeps ==
  ASSUME EmuInv, NEW t \in EmuThread, EmuBegin(t)
  PROVE  EmuInv'
  <1>1. EmuTypes /\ EmuFits /\ EmuLocked /\ EmuBusy /\ EmuOwned
    BY DEF EmuInv
  <1>2. call[t] = NoCall /\ UNCHANGED <<e_lock, e_sem, e_result, reg, hwopen, ef_vnodes, gaveup>>
    BY DEF EmuBegin
  <1>3. /\ ~Keeps(t) /\ ~Drops(t) /\ ~Reclaims(t) /\ e_lock # t /\ ~Done(t) /\ ~LockedIn(call[t].todo) /\ ~At(t, "remove")
    BY <1>2, Resting
  <1>4. has[t] \in Handle0 /\ (has[t] # EMU_ROOTHANDLE => has[t] \in Handle) /\ EMU_ROOTHANDLE \notin Handle
    BY <1>1, EmuAssumption DEF EmuTypes, Handle0
  <1>5. ASSUME NEW c, NEW s, NEW cmd, NEW h, NEW outer, Starts(c, s, cmd, h, outer), call' = [call EXCEPT ![t] = c],
               Fits(cmd, s, outer), cmd # "none", ~LockedIn(s),
               \/ cmd = "open" /\ has[t] = EMU_ROOTHANDLE /\ has' = has /\ Ahead(s, "wait")
               \/ cmd = "io" /\ h = has[t] /\ has' = has /\ h \in Handle /\ ~Ahead(s, "load")
               \/ cmd = "close" /\ h = has[t] /\ h \in Handle /\ has' = [has EXCEPT ![t] = EMU_ROOTHANDLE] /\ ~Ahead(s, "wait") /\ ~Ahead(s, "remove")
        PROVE  EmuInv'
    <2>1. /\ call' \in [EmuThread -> CallRec] /\ \A u \in EmuThread : u # t => call'[u] = call[u]
          /\ call'[t].todo = s /\ call'[t].cmd = cmd /\ call'[t].h = h /\ call'[t].outer = outer
      BY <1>1, <1>5 DEF EmuTypes, Starts
    <2>2. /\ has' \in [EmuThread -> Handle0] /\ \A u \in EmuThread : u # t => has'[u] = has[u]
          /\ cmd = "close" => has'[t] = EMU_ROOTHANDLE
          /\ cmd # "close" => has'[t] = has[t]
      BY <1>1, <1>5 DEF EmuTypes, Handle0
    <2>3. ~Keeps(t)' /\ ~Reclaims(t)' /\ (Drops(t)' => cmd = "close")
      BY <1>5, <2>1 DEF Keeps, Reclaims, Drops
    <2>4. EmuTypes'
      BY <1>1, <1>2, <2>1, <2>2 DEF EmuTypes
    <2>5. EmuFits'
      <3>1. CallFits(t)'
        BY <1>5, <2>1, <2>2, <2>3 DEF CallFits
      <3> QED
        BY <1>1, <2>1, <2>2, <3>1, FitsStep
    <2>6. EmuLocked'
      BY <1>1, <1>2, <1>3, <1>5, <2>1, LockedStep
    <2>7. EmuBusy'
      BY <1>1, <1>2, <1>3, <2>1, BusySame
    <2>8. \A u \in EmuThread : (Done(u)' <=> Done(u)) /\ (Done(u) => u # t)
      BY <1>2, <1>3, <2>1, OthersSame DEF Done
    <2>9. \A u \in EmuThread : /\ Keeps(u)' <=> Keeps(u)
                               /\ u # t => (Drops(u)' <=> Drops(u)) /\ call'[u].h = call[u].h
                               /\ Reclaims(u)' <=> Reclaims(u)
                               /\ Keeps(u) \/ Drops(u) => call'[u].h = call[u].h
      BY <1>3, <2>1, <2>3, OthersSame
    <2>10. \A x \in Handle : Holding(x)' \subseteq Holding(x)
      BY <1>4, <1>5, <2>1, <2>2, <2>3, <2>9 DEF Holding
    <2>11. EmuOwned'
      BY <1>1, <1>2, <1>3, <2>1, <2>8, <2>9, <2>10, QuietOwned
    <2> QED
      BY <2>4, <2>5, <2>6, <2>7, <2>11 DEF EmuInv
  <1>6. /\ Fits("open", Look1, <<"bigV">>) /\ Fits("open", Creat1, <<>>) /\ Fits("io", Io5, <<>>) /\ Fits("io", Io1, <<>>)
        /\ Fits("close", Drop1, <<"bigV">>)
    BY DEF Fits, Looking, Creating, Moving, Dropping
  <1>7. /\ ~LockedIn(Look1) /\ ~LockedIn(Creat1) /\ ~LockedIn(Io5) /\ ~LockedIn(Io1) /\ ~LockedIn(Drop1)
        /\ Ahead(Look1, "wait") /\ Ahead(Creat1, "wait") /\ ~Ahead(Io5, "load") /\ ~Ahead(Io1, "load")
        /\ ~Ahead(Drop1, "wait") /\ ~Ahead(Drop1, "remove")
    BY AheadAre
  <1>8. CASE has[t] = EMU_ROOTHANDLE /\ call' = [call EXCEPT ![t] = emufs_lookup] /\ UNCHANGED has
    <2>1. Starts(emufs_lookup, Look1, "open", EMU_ROOTHANDLE, <<"bigV">>)
      BY BeginFits
    <2> QED
      BY <1>5, <1>6, <1>7, <1>8, <2>1
  <1>9. CASE has[t] = EMU_ROOTHANDLE /\ call' = [call EXCEPT ![t] = emufs_creat] /\ UNCHANGED has
    <2>1. Starts(emufs_creat, Creat1, "open", EMU_ROOTHANDLE, <<>>)
      BY BeginFits
    <2> QED
      BY <1>5, <1>6, <1>7, <1>9, <2>1
  <1>10. CASE /\ has[t] # EMU_ROOTHANDLE /\ UNCHANGED has
              /\ \E c \in {EmuStat(has[t]), EmuIo(has[t], 1), EmuIo(has[t], 2)} : call' = [call EXCEPT ![t] = c]
    <2>1. PICK c \in {EmuStat(has[t]), EmuIo(has[t], 1), EmuIo(has[t], 2)} : call' = [call EXCEPT ![t] = c]
      BY <1>10
    <2>2. Starts(c, Io5, "io", has[t], <<>>) \/ Starts(c, Io1, "io", has[t], <<>>)
      BY <1>4, BeginFits
    <2> QED
      BY <1>4, <1>5, <1>6, <1>7, <1>10, <2>1, <2>2
  <1>11. CASE has[t] # EMU_ROOTHANDLE /\ call' = [call EXCEPT ![t] = VOP_DECREF(has[t])] /\ has' = [has EXCEPT ![t] = EMU_ROOTHANDLE]
    <2>1. Starts(VOP_DECREF(has[t]), Drop1, "close", has[t], <<"bigV">>)
      BY <1>4, BeginFits
    <2> QED
      BY <1>4, <1>5, <1>6, <1>7, <1>11, <2>1
  <1> QED
    BY <1>8, <1>9, <1>10, <1>11 DEF EmuBegin
-----------------------------------------------------------------------------
(* The theorems *)

LEMMA EmuInitial == EmuInit => EmuInv
  <1> SUFFICES ASSUME EmuInit
               PROVE  EmuInv
    OBVIOUS
  <1>1. \A t \in EmuThread : call[t] = NoCall /\ call[t].todo = Empty /\ call[t].cmd = "none" /\ has[t] = EMU_ROOTHANDLE
    BY NoCallIs DEF EmuInit
  <1>2. /\ e_lock = NoHolder /\ e_sem = 0 /\ reg = [stat |-> "idle", oper |-> "none", h |-> EMU_ROOTHANDLE]
        /\ hwopen = {} /\ ef_vnodes = [h \in Handle |-> 0] /\ call = [t \in EmuThread |-> NoCall]
        /\ has = [t \in EmuThread |-> EMU_ROOTHANDLE]
    BY DEF EmuInit
  <1>3. EmuTypes
    BY <1>2, NoCallIs DEF EmuTypes, Handle0
  <1>4. ~LockedIn(Empty) /\ (\A w : ~Ahead(Empty, w)) /\ (\A o : Fits("none", Empty, o)) /\ NoHolder \notin EmuThread
        /\ EMU_ROOTHANDLE \notin Handle
    BY NothingAhead, EmuAssumption DEF Fits, Empty
  <1>5. \A t \in EmuThread : ~Keeps(t) /\ ~Drops(t) /\ ~Reclaims(t) /\ ~Done(t) /\ \A x : ~Mine(t, x)
    BY <1>1, <1>2, <1>4 DEF Keeps, Drops, Reclaims, Done, Mine, Opened
  <1>6. EmuFits
    BY <1>1, <1>4, <1>5 DEF EmuFits, CallFits
  <1>7. EmuLocked
    BY <1>1, <1>2, <1>4 DEF EmuLocked
  <1>8. EmuBusy
    BY <1>2 DEF EmuBusy
  <1>9. ASSUME NEW x \in Handle
        PROVE  Counted(x) /\ Loaded(x) /\ Owned(x)
    <2>1. Holding(x) = {} /\ ef_vnodes[x] = 0
      BY <1>1, <1>2, <1>4, <1>5 DEF Holding
    <2>2. Cardinality(Holding(x)) = 0
      BY <2>1, FS_EmptySet
    <2> QED
      BY <1>2, <2>1, <2>2 DEF Counted, Loaded, Owned
  <1>10. EmuOwned
    BY <1>5, <1>9 DEF EmuOwned, Reclaimed, OnlyMine
  <1> QED
    BY <1>3, <1>6, <1>7, <1>8, <1>10 DEF EmuInv

LEMMA EmuInvHandles ==
  ASSUME EmuInv
  PROVE  HandlesExact
  <1>1. EmuTypes /\ EmuFits /\ EmuLocked /\ EmuBusy /\ EmuOwned
    BY DEF EmuInv
  <1>2. ASSUME reg.stat = "working", reg.oper # "open"
        PROVE  reg.h \in hwopen
    <2> DEFINE t == e_lock
               h == reg.h
    <2>1. /\ t \in EmuThread /\ At(t, "wait") /\ reg.oper = call[t].cmd /\ ~Done(t) /\ h = call[t].h
      BY <1>1, <1>2, WorksFor DEF EmuBusy, Opened, Done
    <2>2. call[t].todo # Empty /\ First(call[t].todo) = "wait" /\ CallFits(t) /\ Fits(call[t].cmd, call[t].todo, call[t].outer)
      BY <1>1, <2>1, AtIs DEF EmuFits, CallFits
    <2>3. call[t].cmd \in {"io", "close"}
      BY <1>2, <2>1, <2>2 DEF Fits, Empty
    <2>4. CASE call[t].cmd = "io"
      <3>1. has[t] = h /\ h \in Handle
        BY <2>1, <2>2, <2>4 DEF CallFits
      <3>2. IsFiniteSet(Holding(h)) /\ t \in Holding(h) /\ Cardinality(Holding(h)) \in Nat /\ ef_vnodes[h] \in Nat
            /\ ef_vnodes[h] >= Cardinality(Holding(h))
        BY <1>1, <2>1, <3>1, HoldingFinite DEF Holding, EmuTypes, EmuOwned, Counted
      <3>3. Cardinality(Holding(h)) # 0
        BY <3>2, FS_EmptySet
      <3>4. ef_vnodes[h] > 0 /\ Loaded(h)
        BY <1>1, <3>1, <3>2, <3>3 DEF EmuOwned
      <3>5. \A u \in EmuThread : ~Reclaims(u)
        BY <1>1, <2>4, HasLock DEF Reclaims
      <3> QED
        BY <3>4, <3>5 DEF Loaded
    <2>5. CASE call[t].cmd = "close"
      <3>1. (Reclaims(t) <=> ~Keeps(t)) /\ h \in Handle0
        BY <1>1, <2>1, <2>5, ClosesOwn
      <3>2. CASE Keeps(t)
        <4>1. Mine(t, h) /\ ~Shut(t)
          BY <2>1, <3>2 DEF Mine, Shut
        <4> QED
          BY <1>1, <2>1, <3>1, <4>1 DEF EmuOwned, OnlyMine
      <3>3. CASE Reclaims(t)
        <4>1. ~Gone(t)
          BY <2>1, <2>2, AtIs DEF Gone
        <4> QED
          BY <1>1, <2>1, <3>3, <4>1 DEF EmuOwned, Reclaimed
      <3> QED
        BY <3>1, <3>2, <3>3
    <2> QED
      BY <2>3, <2>4, <2>5
  <1>3. ASSUME NEW h \in Handle, h \in hwopen, reg.h # h
        PROVE  ef_vnodes[h] > 0 \/ InHand(h) \union Closing(h) # {} \/ h \in gaveup
    <2>1. Owned(h)
      BY <1>1 DEF EmuOwned
    <2>2. ASSUME NEW t \in EmuThread, Mine(t, h)
          PROVE  t \in InHand(h) \union Closing(h)
      BY <1>3, <2>2 DEF Mine, Keeps, InHand, Closing
    <2> QED
      BY <1>3, <2>1, <2>2 DEF Owned
  <1>4. ASSUME NEW h \in Handle, Users(h) # {}
        PROVE  h \in hwopen /\ ef_vnodes[h] >= Cardinality(Users(h))
    <2>1. PICK t \in EmuThread : has[t] = h
      BY <1>4 DEF Users
    <2>2. IsFiniteSet(Holding(h)) /\ Cardinality(Holding(h)) \in Nat /\ ef_vnodes[h] \in Nat /\ ef_vnodes[h] >= Cardinality(Holding(h))
          /\ Users(h) \subseteq Holding(h) /\ t \in Holding(h) /\ Loaded(h)
      BY <1>1, <2>1, HoldingFinite DEF Holding, Users, EmuTypes, EmuOwned, Counted
    <2>3. Cardinality(Users(h)) <= Cardinality(Holding(h)) /\ Cardinality(Users(h)) \in Nat
      BY <2>2, FS_Subset, FS_CardinalityType
    <2>4. Cardinality(Holding(h)) # 0
      BY <2>2, FS_EmptySet
    <2>5. ASSUME NEW u \in EmuThread, Reclaims(u), call[u].h = h
          PROVE  FALSE
      <3>1. Drops(u) /\ has[u] = EMU_ROOTHANDLE /\ EMU_ROOTHANDLE \notin Handle
        BY <1>1, <2>5, EmuAssumption DEF Drops, Reclaims, EmuFits, CallFits
      <3>2. u # t /\ u \in Holding(h)
        BY <2>1, <2>5, <3>1 DEF Holding
      <3>3. Cardinality({t, u}) = 2 /\ {t, u} \subseteq Holding(h)
        BY <2>2, <3>2, TwoOf
      <3>4. Cardinality(Holding(h)) >= 2
        BY <2>2, <3>3, FS_Subset
      <3>5. ef_vnodes[h] = 1
        BY <1>1, <2>5 DEF EmuOwned, Reclaimed
      <3> QED
        BY <2>2, <3>4, <3>5
    <2> QED
      BY <2>2, <2>3, <2>4, <2>5 DEF Loaded
  <1>5. reg.stat # "idle" \/ e_sem > 0 => \E t \in EmuThread : At(t, "wait") /\ e_lock = t
    <2>1. e_sem > 0 => e_sem = 1
      BY <1>1 DEF EmuTypes
    <2> QED
      BY <1>1, <2>1, WorksFor
  <1>6. e_sem <= 1
    BY <1>1 DEF EmuTypes
  <1> QED
    BY <1>2, <1>3, <1>4, <1>5, <1>6 DEF HandlesExact

LEMMA EmuNextKeeps ==
  ASSUME EmuInv, [EmuNext]_emuVars
  PROVE  EmuInv'
  <1>1. CASE Emulate
    BY <1>1, EmulateKeeps
  <1>2. CASE emu_irq
    BY <1>2, IrqKeeps
  <1>3. CASE \E t \in EmuThread : EmuBegin(t)
    BY <1>3, BeginKeeps
  <1>4. CASE \E t \in EmuThread : EmuStep(t)
    <2>1. PICK t \in EmuThread : EmuStep(t)
      BY <1>4
    <2>2. CASE vfs_biglock_acquire(t) \/ vfs_biglock_release(t)
      BY <2>2, BigKeeps
    <2>3. CASE EmuLock(t) \/ EmuUnlock(t)
      BY <2>3, LockKeeps
    <2>4. CASE emu_wreg(t)
      BY <2>4, WregKeeps
    <2>5. CASE emu_waitdone(t)
      BY <2>5, WaitKeeps
    <2>6. CASE Load(t)
      BY <2>6, LoadKeeps
    <2>7. CASE Decref(t)
      BY <2>7, DecrefKeeps
    <2>8. CASE CheckCount(t)
      BY <2>8, CheckKeeps
    <2>9. CASE RemoveVnode(t)
      BY <2>9, RemoveKeeps
    <2> QED
      BY <2>1, <2>2, <2>3, <2>4, <2>5, <2>6, <2>7, <2>8, <2>9 DEF EmuStep
  <1>5. CASE \E t, u \in EmuThread : t # u /\ VOP_INCREF(t, u)
    BY <1>5, IncrefKeeps
  <1>6. CASE UNCHANGED emuVars
    <2>1. UNCHANGED <<e_lock, e_sem, e_result, reg, hwopen, ef_vnodes, call, has, gaveup>>
      BY <1>6 DEF emuVars
    <2>2. EmuTypes /\ EmuFits /\ EmuLocked /\ EmuBusy /\ EmuOwned
      BY DEF EmuInv
    <2>3. \A u : Done(u)' <=> Done(u)
      BY <2>1, OthersSame DEF Done
    <2>4. EmuTypes' /\ EmuLocked'
      BY <2>1, <2>2 DEF EmuTypes, EmuLocked
    <2>5. EmuFits'
      BY <2>1, <2>2, OthersSame DEF EmuFits, CallFits
    <2>6. EmuBusy'
      BY <2>1, <2>2, BusySame
    <2>7. EmuOwned'
      BY <2>1, <2>2, <2>3, HwOwned
    <2> QED
      BY <2>4, <2>5, <2>6, <2>7 DEF EmuInv
  <1> QED
    BY <1>1, <1>2, <1>3, <1>4, <1>5, <1>6 DEF EmuNext

\* emu.c's handles: the hardware is never given a handle it does not have
\* open, none is lost but by a close that failed for good, a vnode in use is
\* open and has a reference for each of its users, and an answer finds the
\* thread that asked; whatever fails in emufs_loadvnode.
THEOREM HandlesExactThm == EmuSpec => []HandlesExact
  <1>1. EmuInv /\ [EmuNext]_emuVars => EmuInv'
    BY EmuNextKeeps
  <1> QED
    BY <1>1, EmuInitial, EmuInvHandles, PTL DEF EmuSpec

-----------------------------------------------------------------------------
(* vfs_biglock *)

\* How often a thread that has these steps before it holds vfs_biglock.
LookDeep(s, d) ==
    \/ d = 0 /\ s = Look1
    \/ d = 1 /\ s \in {Look2, Look3, Look4, Look5, Look6, Look11, Creat8}
    \/ d = 2 /\ s \in {Look7, Look8, Look9, Look10}
CreatDeep(s, d) ==
    \/ d = 0 /\ s \in {Creat1, Creat2, Creat3, Creat4, Creat5, Io8}
    \/ d = 1 /\ s \in {Creat6, Creat7, Creat8, Look11}
BackDeep(s, d) ==
    \/ d = 0 /\ s \in {Io5, Io6, Io7, Io8}
    \/ d = 1 /\ s \in {Back3, Back4, Back5, Undo1, Undo2, Creat8, Look11}
    \/ d = 2 /\ s \in {Back1, Back2}
DropDeep(s, d) ==
    \/ d = 0 /\ s = Drop1
    \/ d = 1 /\ s \in {Drop2, Recl1, Look11}
    \/ d = 2 /\ s \in {Recl2, Recl3, Recl4, Recl5, Recl6, Look9, Look10}

Deep(cmd, s, outer, d) ==
    \/ cmd = "none" /\ d = 0
    \/ cmd = "open" /\ outer = <<"bigV">> /\ LookDeep(s, d)
    \/ cmd = "open" /\ outer = <<>> /\ CreatDeep(s, d)
    \/ cmd = "io" /\ Moving(s) /\ d = 0
    \/ cmd = "close" /\ BackDeep(s, d)
    \/ cmd = "close" /\ outer = <<"bigV">> /\ DropDeep(s, d)

Depth(t) == IF emubig.who = t THEN emubig.depth ELSE 0

EmuDeep ==
    /\ emubig \in [who : EmuThread \union {NoHolder}, depth : Nat]
    /\ emubig.who = NoHolder <=> emubig.depth = 0
    /\ \A t \in EmuThread : Deep(call[t].cmd, call[t].todo, call[t].outer, Depth(t))

\* A step takes it, gives back what it has, or leaves it.
LEMMA DeepNext ==
  ASSUME NEW cmd, NEW s, NEW outer, NEW d, Deep(cmd, s, outer, d), IsSteps(s), cmd # "none"
  PROVE  /\ d \in Nat
         /\ First(s) = "bigP" => Then(s) # Empty /\ Deep(cmd, Then(s), outer, d + 1)
         /\ First(s) = "bigV" => d > 0 /\ IF Then(s) = Empty THEN d = 1 ELSE Deep(cmd, Then(s), outer, d - 1)
         /\ First(s) \notin {"bigP", "bigV"} => IF Then(s) = Empty THEN d = 0 ELSE Deep(cmd, Then(s), outer, d)
  <1>1. CASE cmd = "open" /\ outer = <<"bigV">> /\ LookDeep(s, d)
    <2>1. CASE d = 0 /\ s = Look1
      BY <1>1, <2>1, StepsAre, StepsNotEmpty DEF Deep, LookDeep
    <2>2. CASE d = 1 /\ s \in {Look2, Look3, Look4, Look5, Look6, Look11, Creat8}
      BY <1>1, <2>2, StepsAre, StepsNotEmpty DEF Deep, LookDeep
    <2>3. CASE d = 2 /\ s \in {Look7, Look8, Look9, Look10}
      BY <1>1, <2>3, StepsAre, StepsNotEmpty DEF Deep, LookDeep
    <2> QED
      BY <1>1, <2>1, <2>2, <2>3 DEF LookDeep
  <1>2. CASE cmd = "open" /\ outer = <<>> /\ CreatDeep(s, d)
    <2>1. CASE d = 0 /\ s \in {Creat1, Creat2, Creat3, Creat4, Creat5, Io8}
      BY <1>2, <2>1, StepsAre, StepsNotEmpty DEF Deep, CreatDeep
    <2>2. CASE d = 1 /\ s \in {Creat6, Creat7, Creat8, Look11}
      BY <1>2, <2>2, StepsAre, StepsNotEmpty DEF Deep, CreatDeep
    <2> QED
      BY <1>2, <2>1, <2>2 DEF CreatDeep
  <1>3. CASE cmd = "io" /\ Moving(s) /\ d = 0
    BY <1>3, StepsAre, StepsNotEmpty DEF Deep, Moving
  <1>4. CASE cmd = "close" /\ BackDeep(s, d)
    <2>1. CASE d = 0 /\ s \in {Io5, Io6, Io7, Io8}
      BY <1>4, <2>1, StepsAre, StepsNotEmpty DEF Deep, BackDeep
    <2>2. CASE d = 1 /\ s \in {Back3, Back4, Back5, Undo1, Undo2, Creat8, Look11}
      BY <1>4, <2>2, StepsAre, StepsNotEmpty DEF Deep, BackDeep
    <2>3. CASE d = 2 /\ s \in {Back1, Back2}
      BY <1>4, <2>3, StepsAre, StepsNotEmpty DEF Deep, BackDeep
    <2> QED
      BY <1>4, <2>1, <2>2, <2>3 DEF BackDeep
  <1>5. CASE cmd = "close" /\ outer = <<"bigV">> /\ DropDeep(s, d)
    <2>1. CASE d = 0 /\ s = Drop1
      BY <1>5, <2>1, StepsAre, StepsNotEmpty DEF Deep, DropDeep
    <2>2. CASE d = 1 /\ s \in {Drop2, Recl1, Look11}
      BY <1>5, <2>2, StepsAre, StepsNotEmpty DEF Deep, DropDeep
    <2>3. CASE d = 2 /\ s \in {Recl2, Recl3, Recl4, Recl5, Recl6, Look9, Look10}
      BY <1>5, <2>3, StepsAre, StepsNotEmpty DEF Deep, DropDeep
    <2> QED
      BY <1>5, <2>1, <2>2, <2>3 DEF DropDeep
  <1> QED
    BY <1>1, <1>2, <1>3, <1>4, <1>5 DEF Deep

\* What a call goes on with when something fails has vfs_biglock as often.
LEMMA OpenDeep ==
  ASSUME NEW s, NEW outer, NEW d, Deep("open", s, outer, d), First(s) = "wait"
  PROVE  Deep("open", <<"eV">> \o outer, outer, d)
  <1>1. CASE outer = <<"bigV">> /\ LookDeep(s, d)
    <2>1. <<"eV">> \o outer = Creat8
      <3>1. <<"eV">> \o outer = Cat(Io8, Look11)
        BY <1>1 DEF Cat, Io8, Look11
      <3> QED
        BY <3>1, CatAre
    <2>2. d = 1
      BY <1>1, StepsAre DEF LookDeep
    <2>3. Deep("open", Creat8, outer, d)
      BY <1>1, <2>2 DEF Deep, LookDeep
    <2> QED
      BY <2>1, <2>3, Zenon
  <1>2. CASE outer = <<>> /\ CreatDeep(s, d)
    <2>1. <<"eV">> \o outer = Io8
      <3>1. <<"eV">> \o <<>> = <<"eV">>
        <4>1. <<"eV">> \in Seq(Word)
          BY DEF Word
        <4> QED
          BY <4>1, ConcatEmptySeq
      <3> QED
        BY <1>2, <3>1 DEF Io8
    <2>2. d = 0
      BY <1>2, StepsAre DEF CreatDeep
    <2>3. Deep("open", Io8, outer, d)
      BY <1>2, <2>2 DEF Deep, CreatDeep
    <2> QED
      BY <2>1, <2>3, Zenon
  <1> QED
    BY <1>1, <1>2 DEF Deep

LEMMA CloseDeep ==
  ASSUME NEW s, NEW outer, NEW d, Deep("close", s, outer, d), First(s) = "wait"
  PROVE  /\ Deep("close", <<"op", "wait">> \o Then(s), outer, d)
         /\ First(Then(s)) = "remove" => Deep("close", Then(Then(s)), outer, d)
  <1>1. <<"op", "wait">> \o Then(s) = Cat(Try1, Then(s))
    BY DEF Cat, Try1
  <1>2. Deep("close", Cat(Try1, Then(s)), outer, d) /\ (First(Then(s)) = "remove" => Deep("close", Then(Then(s)), outer, d))
    <2>1. CASE BackDeep(s, d)
      <3>1. (s = Back5 /\ d = 1) \/ (s = Io7 /\ d = 0)
        BY <2>1, StepsAre DEF BackDeep
      <3>2. Deep("close", Back4, outer, 1) /\ Deep("close", Io6, outer, 0)
        BY DEF Deep, BackDeep
      <3> QED
        BY <3>1, <3>2, CatAre, StepsAre
    <2>2. CASE outer = <<"bigV">> /\ DropDeep(s, d)
      <3>1. s = Recl5 /\ d = 2
        BY <2>2, StepsAre DEF DropDeep
      <3>2. Deep("close", Recl4, outer, 2) /\ Deep("close", Look9, outer, 2)
        BY <2>2 DEF Deep, DropDeep
      <3> QED
        BY <3>1, <3>2, CatAre, StepsAre
    <2> QED
      BY <2>1, <2>2 DEF Deep
  <1> QED
    BY <1>1, <1>2, Zenon

LEMMA LoadDeep ==
  ASSUME NEW s, NEW outer, NEW d, Deep("open", s, outer, d), First(s) = "load"
  PROVE  Deep("close", <<"eV", "bigV">> \o emu_close \o outer, outer, d)
  <1>1. CASE outer = <<"bigV">> /\ LookDeep(s, d)
    <2>1. <<"eV", "bigV">> \o emu_close \o outer = Back1
      <3>1. <<"eV", "bigV">> \o emu_close \o outer = Cat(Cat(Creat8, Io5), Look11)
        BY <1>1 DEF Cat, Io5, Look11, Creat8, emu_close
      <3> QED
        BY <3>1, CatAre
    <2>2. d = 2
      BY <1>1, StepsAre DEF LookDeep
    <2>3. Deep("close", Back1, outer, d)
      BY <2>2 DEF Deep, BackDeep
    <2> QED
      BY <2>1, <2>3, Zenon
  <1>2. CASE outer = <<>> /\ CreatDeep(s, d)
    <2>1. <<"eV", "bigV">> \o emu_close \o outer = Undo1
      <3>1. <<"eV", "bigV">> \o emu_close \o outer = Cat(Cat(Creat8, Io5), <<>>)
        BY <1>2 DEF Cat, Io5, Creat8, emu_close
      <3>2. Cat(Undo1, <<>>) = Undo1
        <4>1. Undo1 \in Seq(Word)
          BY StepsAre DEF IsSteps
        <4> QED
          BY <4>1, ConcatEmptySeq DEF Cat
      <3>3. Cat(Creat8, Io5) = Undo1
        BY CatAre
      <3> QED
        BY <3>1, <3>2, <3>3, Zenon
    <2>2. d = 1
      BY <1>2, StepsAre DEF CreatDeep
    <2>3. Deep("close", Undo1, outer, d)
      BY <2>2 DEF Deep, BackDeep
    <2> QED
      BY <2>1, <2>3, Zenon
  <1> QED
    BY <1>1, <1>2 DEF Deep

LEMMA ReclaimDeep ==
  ASSUME NEW s, NEW outer, NEW d, Deep("close", s, outer, d)
  PROVE  /\ First(s) = "decref" => Deep("close", emufs_reclaim \o Then(s), outer, d)
         /\ First(s) = "check" => Deep("close", <<"eV", "bigV">> \o outer, outer, d)
  <1>1. CASE outer = <<"bigV">> /\ DropDeep(s, d)
    <2>1. <<"eV", "bigV">> \o outer = Look9
      <3>1. <<"eV", "bigV">> \o outer = Cat(Creat8, Look11)
        BY <1>1 DEF Cat, Creat8, Look11
      <3> QED
        BY <3>1, CatAre
    <2>2. (First(s) = "decref" => s = Drop2 /\ d = 1) /\ (First(s) = "check" => s = Recl3 /\ d = 2)
      BY <1>1, StepsAre DEF DropDeep
    <2>3. s = Drop2 => emufs_reclaim \o Then(s) = Recl1
      <3>1. emufs_reclaim \o Then(s) = Cat(Part1, Then(s))
        BY DEF Cat, Part1, emufs_reclaim
      <3>2. s = Drop2 => Cat(Part1, Then(s)) = Recl1
        BY CatAre, StepsAre
      <3> QED
        BY <3>1, <3>2, Zenon
    <2>4. Deep("close", Recl1, outer, 1) /\ Deep("close", Look9, outer, 2)
      BY <1>1 DEF Deep, DropDeep
    <2> QED
      BY <2>1, <2>2, <2>3, <2>4, Zenon
  <1>2. CASE BackDeep(s, d)
    <2>1. First(s) # "decref" /\ First(s) # "check"
      BY <1>2, StepsAre DEF BackDeep
    <2> QED
      BY <2>1, Zenon
  <1> QED
    BY <1>1, <1>2, Zenon DEF Deep

\* A step that leaves vfs_biglock alone.
LEMMA DeepStep ==
  ASSUME EmuDeep, NEW t \in EmuThread, emubig' = emubig, \A u \in EmuThread : u # t => call'[u] = call[u],
         Deep(call'[t].cmd, call'[t].todo, call'[t].outer, Depth(t))
  PROVE  EmuDeep'
  BY DEF EmuDeep, Depth

\* A call that goes on with its next step, or ends.
LEMMA DeepGoto ==
  ASSUME EmuInv, EmuDeep, NEW t \in EmuThread, call[t].todo # Empty, Goto(t, Rest(t)), NEW d,
         IF Then(call[t].todo) = Empty THEN d = 0 ELSE Deep(call[t].cmd, Then(call[t].todo), call[t].outer, d)
  PROVE  /\ Deep(call'[t].cmd, call'[t].todo, call'[t].outer, d)
         /\ \A u \in EmuThread : u # t => call'[u] = call[u]
  <1> DEFINE s == call[t].todo
             c == call[t]
  <1>1. call \in [EmuThread -> CallRec] /\ Fits(c.cmd, s, c.outer) /\ Goto(t, Then(s))
    BY DEF EmuInv, EmuTypes, EmuFits, CallFits, Rest, Then
  <1>2. Then(s) = Empty \/ IsSteps(Then(s))
    BY <1>1, FitsNext
  <1>3. /\ \A u \in EmuThread : u # t => call'[u] = call[u]
        /\ Then(s) = Empty => call'[t] = NoCall
        /\ Then(s) # Empty => Going(t, call'[t], Then(s))
    BY <1>1, <1>2, GotoIs
  <1>4. CASE Then(s) = Empty
    <2>1. call'[t].cmd = "none" /\ d = 0
      BY <1>3, <1>4, NoCallIs
    <2> QED
      BY <1>3, <2>1 DEF Deep
  <1>5. CASE Then(s) # Empty
    BY <1>3, <1>5 DEF Going
  <1> QED
    BY <1>4, <1>5

\* Where a call is, and how often it has vfs_biglock there.
LEMMA DeepAt ==
  ASSUME EmuInv, EmuDeep, NEW t \in EmuThread, NEW w, At(t, w)
  PROVE  /\ call[t].todo # Empty /\ First(call[t].todo) = w /\ IsSteps(call[t].todo) /\ call[t].cmd # "none"
         /\ Fits(call[t].cmd, call[t].todo, call[t].outer)
         /\ Deep(call[t].cmd, call[t].todo, call[t].outer, Depth(t)) /\ Depth(t) \in Nat
         /\ w \notin {"bigP", "bigV"} =>
               IF Then(call[t].todo) = Empty THEN Depth(t) = 0 ELSE Deep(call[t].cmd, Then(call[t].todo), call[t].outer, Depth(t))
  <1>1. call[t].todo # Empty /\ First(call[t].todo) = w /\ Fits(call[t].cmd, call[t].todo, call[t].outer)
    BY AtIs DEF EmuInv, EmuFits, CallFits
  <1>2. IsSteps(call[t].todo) /\ call[t].cmd # "none"
    BY <1>1, FitsNext
  <1>3. Deep(call[t].cmd, call[t].todo, call[t].outer, Depth(t))
    BY DEF EmuDeep
  <1> QED
    BY <1>1, <1>2, <1>3, DeepNext

LEMMA BigDeep ==
  ASSUME EmuInv, EmuDeep, NEW t \in EmuThread, vfs_biglock_acquire(t) \/ vfs_biglock_release(t)
  PROVE  EmuDeep'
  <1> DEFINE s == call[t].todo
             c == call[t]
  <1>1. /\ emubig.who \in EmuThread \union {NoHolder} /\ emubig.depth \in Nat /\ NoHolder \notin EmuThread
        /\ emubig.who = NoHolder <=> emubig.depth = 0
    BY EmuAssumption DEF EmuDeep
  <1>2. CASE vfs_biglock_acquire(t)
    <2>1. At(t, "bigP") /\ emubig.who \in {t, NoHolder} /\ emubig' = [who |-> t, depth |-> emubig.depth + 1] /\ Goto(t, Rest(t))
      BY <1>2 DEF vfs_biglock_acquire
    <2>2. s # Empty /\ Then(s) # Empty /\ Deep(c.cmd, Then(s), c.outer, Depth(t) + 1)
      BY <2>1, DeepAt, DeepNext
    <2>3. Depth(t) + 1 = emubig.depth + 1
      BY <1>1, <2>1 DEF Depth
    <2>4. Deep(call'[t].cmd, call'[t].todo, call'[t].outer, emubig.depth + 1) /\ \A u \in EmuThread : u # t => call'[u] = call[u]
      BY <2>1, <2>2, <2>3, DeepGoto
    <2>5. emubig'.who = t /\ emubig'.depth = emubig.depth + 1 /\ emubig' \in [who : EmuThread \union {NoHolder}, depth : Nat]
      BY <1>1, <2>1
    <2>6. ASSUME NEW u \in EmuThread
          PROVE  Deep(call'[u].cmd, call'[u].todo, call'[u].outer, Depth(u)')
      <3>1. CASE u = t
        BY <2>4, <2>5, <3>1 DEF Depth
      <3>2. CASE u # t
        <4>1. Depth(u) = 0 /\ Depth(u)' = 0
          BY <1>1, <2>1, <2>5, <3>2 DEF Depth
        <4> QED
          BY <2>4, <3>2, <4>1 DEF EmuDeep
      <3> QED
        BY <3>1, <3>2
    <2> QED
      BY <1>1, <2>5, <2>6 DEF EmuDeep
  <1>3. CASE vfs_biglock_release(t)
    <2>1. At(t, "bigV") /\ Goto(t, Rest(t))
          /\ emubig' = [who |-> IF emubig.depth = 1 THEN NoHolder ELSE t, depth |-> emubig.depth - 1]
      BY <1>3 DEF vfs_biglock_release
    <2>2. s # Empty /\ Depth(t) \in Nat /\ Depth(t) > 0 /\ IF Then(s) = Empty THEN Depth(t) = 1 ELSE Deep(c.cmd, Then(s), c.outer, Depth(t) - 1)
      BY <2>1, DeepAt, DeepNext
    <2>3. emubig.who = t /\ Depth(t) = emubig.depth /\ emubig.depth > 0
      BY <2>2 DEF Depth
    <2>4. IF Then(s) = Empty THEN emubig.depth - 1 = 0 ELSE Deep(c.cmd, Then(s), c.outer, emubig.depth - 1)
      BY <1>1, <2>2, <2>3
    <2>5. Deep(call'[t].cmd, call'[t].todo, call'[t].outer, emubig.depth - 1) /\ \A u \in EmuThread : u # t => call'[u] = call[u]
      BY <2>1, <2>2, <2>4, DeepGoto
    <2>6. /\ emubig'.depth = emubig.depth - 1 /\ emubig'.who = (IF emubig.depth = 1 THEN NoHolder ELSE t)
          /\ emubig' \in [who : EmuThread \union {NoHolder}, depth : Nat]
      BY <1>1, <2>1, <2>3
    <2>7. emubig'.who = NoHolder <=> emubig'.depth = 0
      BY <1>1, <2>3, <2>6
    <2>8. ASSUME NEW u \in EmuThread
          PROVE  Deep(call'[u].cmd, call'[u].todo, call'[u].outer, Depth(u)')
      <3>1. CASE u = t
        <4>1. Depth(t)' = emubig.depth - 1
          BY <1>1, <2>3, <2>6 DEF Depth
        <4> QED
          BY <2>5, <3>1, <4>1
      <3>2. CASE u # t
        <4>1. Depth(u) = 0 /\ Depth(u)' = 0
          BY <1>1, <2>3, <2>6, <3>2 DEF Depth
        <4> QED
          BY <2>5, <3>2, <4>1 DEF EmuDeep
      <3> QED
        BY <3>1, <3>2
    <2> QED
      BY <2>6, <2>7, <2>8 DEF EmuDeep
  <1> QED
    BY <1>2, <1>3

LEMMA PlainDeep ==
  ASSUME EmuInv, EmuDeep, NEW t \in EmuThread, NEW w, w \notin {"bigP", "bigV"}, At(t, w), Goto(t, Rest(t)), emubig' = emubig
  PROVE  EmuDeep'
  <1>1. /\ call[t].todo # Empty
        /\ IF Then(call[t].todo) = Empty THEN Depth(t) = 0 ELSE Deep(call[t].cmd, Then(call[t].todo), call[t].outer, Depth(t))
    BY DeepAt
  <1> QED
    BY <1>1, DeepGoto, DeepStep

LEMMA WaitFits ==
  ASSUME NEW cmd, NEW s, NEW outer, Fits(cmd, s, outer), s # Empty, First(s) = "wait"
  PROVE  Then(s) # Empty
  <1>1. CASE Looking(s)
    BY <1>1, StepsAre, StepsNotEmpty DEF Looking
  <1>2. CASE Creating(s)
    BY <1>2, StepsAre, StepsNotEmpty DEF Creating
  <1>3. CASE Moving(s)
    BY <1>3, StepsAre, StepsNotEmpty DEF Moving
  <1>4. CASE Returning(s)
    BY <1>4, StepsAre, StepsNotEmpty DEF Returning
  <1>5. CASE Dropping(s)
    BY <1>5, StepsAre, StepsNotEmpty DEF Dropping
  <1> QED
    BY <1>1, <1>2, <1>3, <1>4, <1>5 DEF Fits, Empty

LEMMA WaitDeep ==
  ASSUME EmuInv, EmuDeep, NEW t \in EmuThread, emu_waitdone(t)
  PROVE  EmuDeep'
  <1> DEFINE s == call[t].todo
             c == call[t]
  <1>1. EmuTypes /\ EmuFits /\ EmuLocked /\ EmuBusy /\ EmuOwned
    BY DEF EmuInv
  <1>2. At(t, "wait") /\ call' = [call EXCEPT ![t] = AfterWait(t)] /\ emubig' = emubig
    BY DEF emu_waitdone
  <1>3. call'[t] = AfterWait(t) /\ \A u \in EmuThread : u # t => call'[u] = call[u]
    BY <1>1, <1>2 DEF EmuTypes
  <1>4. /\ s # Empty /\ First(s) = "wait" /\ c.cmd \in {"open", "io", "close"} /\ Deep(c.cmd, s, c.outer, Depth(t))
        /\ IF Then(s) = Empty THEN Depth(t) = 0 ELSE Deep(c.cmd, Then(s), c.outer, Depth(t))
        /\ Fits(c.cmd, s, c.outer)
    <2>1. c.cmd # "none" /\ s # Empty /\ Fits(c.cmd, s, c.outer)
      BY <1>2, DeepAt
    <2>2. c.cmd \in {"open", "io", "close"}
      BY <2>1 DEF Fits
    <2> QED
      BY <1>2, <2>2, DeepAt
  <1>5. ASSUME NEW r, NEW h, Waited(t, AfterWait(t), r, h), Deep(c.cmd, r, c.outer, Depth(t))
        PROVE  EmuDeep'
    BY <1>2, <1>3, <1>5, DeepStep DEF Waited
  <1>6. Then(s) # Empty
    BY <1>4, WaitFits
  <1>7. CASE e_result = "ok"
    BY <1>1, <1>2, <1>4, <1>5, <1>6, <1>7, AfterWaitIs
  <1>8. CASE e_result # "ok" /\ c.cmd = "open"
    <2> DEFINE r == <<"eV">> \o c.outer
    <2>1. Waited(t, AfterWait(t), r, c.h)
      BY <1>1, <1>2, <1>8, AfterWaitIs
    <2>2. Deep("open", r, c.outer, Depth(t))
      BY <1>4, <1>8, OpenDeep
    <2> HIDE DEF r
    <2> QED
      BY <1>5, <1>8, <2>1, <2>2
  <1>9. CASE e_result # "ok" /\ c.cmd = "io"
    <2> DEFINE r == <<"eV">>
    <2>1. Waited(t, AfterWait(t), r, c.h)
      BY <1>1, <1>2, <1>9, AfterWaitIs
    <2>2. r = Io8 /\ Depth(t) = 0
      BY <1>4, <1>9 DEF Deep, Io8
    <2>3. Deep("io", r, c.outer, Depth(t))
      BY <2>2 DEF Deep, Moving
    <2> HIDE DEF r
    <2> QED
      BY <1>5, <1>9, <2>1, <2>3
  <1>10. CASE e_result # "ok" /\ c.cmd = "close" /\ c.tries < RETRIES
    <2> DEFINE r == <<"op", "wait">> \o Then(s)
    <2>1. Waited(t, AfterWait(t), r, c.h)
      BY <1>1, <1>2, <1>10, AfterWaitIs
    <2>2. Deep("close", r, c.outer, Depth(t))
      BY <1>4, <1>10, CloseDeep
    <2> HIDE DEF r
    <2> QED
      BY <1>5, <1>10, <2>1, <2>2
  <1>11. CASE e_result # "ok" /\ c.cmd = "close" /\ ~(c.tries < RETRIES)
    <2> DEFINE r == IF First(Then(s)) = "remove" THEN Then(Then(s)) ELSE Then(s)
    <2>1. Waited(t, AfterWait(t), r, c.h)
      BY <1>1, <1>2, <1>11, AfterWaitIs
    <2>2. Deep("close", r, c.outer, Depth(t))
      BY <1>4, <1>6, <1>11, CloseDeep
    <2> HIDE DEF r
    <2> QED
      BY <1>5, <1>11, <2>1, <2>2
  <1> QED
    BY <1>4, <1>7, <1>8, <1>9, <1>10, <1>11

\* Of what may fail in emufs_loadvnode, the array: there vfs_biglock is given back.
LEMMA LoadKeepsDeep ==
  ASSUME EmuInv, EmuDeep, LoadFails \subseteq {"array"}, NEW t \in EmuThread, Load(t)
  PROVE  EmuDeep'
  <1> DEFINE s == call[t].todo
             c == call[t]
             r == <<"eV", "bigV">> \o emu_close \o c.outer
  <1>1. At(t, "load") /\ emubig' = emubig
    BY DEF Load
  <1>2. CASE Goto(t, Rest(t))
    <2>1. "load" \notin {"bigP", "bigV"}
      OBVIOUS
    <2> QED
      BY <1>1, <1>2, <2>1, PlainDeep
  <1>3. CASE call' = [call EXCEPT ![t] = [c EXCEPT !.cmd = "close", !.todo = r]]
    <2>1. s # Empty /\ First(s) = "load" /\ Fits(c.cmd, s, c.outer) /\ Deep(c.cmd, s, c.outer, Depth(t))
      BY <1>1, DeepAt
    <2>2. c.cmd = "open"
      BY <2>1, LoadFits
    <2>3. Deep("close", r, c.outer, Depth(t))
      BY <2>1, <2>2, LoadDeep
    <2>4. c \in CallRec /\ call \in [EmuThread -> CallRec]
      BY DEF EmuInv, EmuTypes
    <2> HIDE DEF r
    <2>5. call'[t] = [c EXCEPT !.cmd = "close", !.todo = r] /\ \A u \in EmuThread : u # t => call'[u] = call[u]
      BY <1>3, <2>4
    <2>6. call'[t].cmd = "close" /\ call'[t].todo = r /\ call'[t].outer = c.outer
      BY <2>4, <2>5 DEF CallRec
    <2> QED
      BY <1>1, <2>3, <2>5, <2>6, DeepStep
  <1>4. Goto(t, Rest(t)) \/ call' = [call EXCEPT ![t] = [c EXCEPT !.cmd = "close", !.todo = r]]
    <2>1. \A f \in LoadFails : f = "array" /\ f # "kmalloc"
      OBVIOUS
    <2> QED
      BY <2>1 DEF Load
  <1> QED
    BY <1>2, <1>3, <1>4

LEMMA DropKeepsDeep ==
  ASSUME EmuInv, EmuDeep, NEW t \in EmuThread, Decref(t) \/ CheckCount(t)
  PROVE  EmuDeep'
  <1> DEFINE s == call[t].todo
             c == call[t]
  <1>1. emubig' = emubig /\ (At(t, "decref") \/ At(t, "check"))
    BY DEF Decref, CheckCount
  <1>2. CASE Goto(t, Rest(t))
    <2>1. "decref" \notin {"bigP", "bigV"} /\ "check" \notin {"bigP", "bigV"}
      OBVIOUS
    <2> QED
      BY <1>1, <1>2, <2>1, PlainDeep
  <1>3. ASSUME NEW r, IsSteps(r), Deep("close", r, c.outer, Depth(t)), c.cmd = "close", Goto(t, r)
        PROVE  EmuDeep'
    <2>1. call \in [EmuThread -> CallRec] /\ r # Empty
      BY <1>3, StepsNotEmpty DEF EmuInv, EmuTypes
    <2>2. Going(t, call'[t], r) /\ \A u \in EmuThread : u # t => call'[u] = call[u]
      BY <1>3, <2>1, GotoIs
    <2> QED
      BY <1>1, <1>3, <2>2, DeepStep DEF Going
  <1>4. CASE At(t, "decref") /\ Goto(t, emufs_reclaim \o Rest(t))
    <2> DEFINE r == emufs_reclaim \o Then(s)
    <2>1. s # Empty /\ First(s) = "decref" /\ Fits(c.cmd, s, c.outer) /\ Deep(c.cmd, s, c.outer, Depth(t))
      BY <1>4, DeepAt
    <2>2. c.cmd = "close" /\ LastOf(r, c.outer)
      BY <2>1, DropFits
    <2>3. Deep("close", r, c.outer, Depth(t))
      BY <2>1, <2>2, ReclaimDeep
    <2>4. Goto(t, r)
      BY <1>4 DEF Rest, Then
    <2> HIDE DEF r
    <2> QED
      BY <1>3, <2>2, <2>3, <2>4 DEF LastOf
  <1>5. CASE At(t, "check") /\ Goto(t, <<"eV", "bigV">> \o c.outer)
    <2> DEFINE r == <<"eV", "bigV">> \o c.outer
    <2>1. s # Empty /\ First(s) = "check" /\ Fits(c.cmd, s, c.outer) /\ Deep(c.cmd, s, c.outer, Depth(t))
      BY <1>5, DeepAt
    <2>2. c.cmd = "close" /\ Ending("close", r, c.outer)
      BY <2>1, DropFits
    <2>3. Deep("close", r, c.outer, Depth(t))
      BY <2>1, <2>2, ReclaimDeep
    <2>4. Goto(t, r)
      BY <1>5
    <2> HIDE DEF r
    <2> QED
      BY <1>3, <2>2, <2>3, <2>4 DEF Ending
  <1> QED
    BY <1>2, <1>4, <1>5 DEF Decref, CheckCount

LEMMA BeginDeep ==
  ASSUME EmuInv, EmuDeep, NEW t \in EmuThread, EmuBegin(t)
  PROVE  EmuDeep'
  <1>1. call \in [EmuThread -> CallRec] /\ call[t] = NoCall /\ emubig' = emubig /\ has[t] \in Handle0
    BY DEF EmuInv, EmuTypes, EmuBegin
  <1>2. Depth(t) = 0
    <2>1. call[t].cmd = "none" /\ Deep(call[t].cmd, call[t].todo, call[t].outer, Depth(t))
      BY <1>1, NoCallIs DEF EmuDeep
    <2> QED
      BY <2>1 DEF Deep
  <1>3. ASSUME NEW c, NEW s, NEW cmd, NEW h, NEW outer, Starts(c, s, cmd, h, outer), call' = [call EXCEPT ![t] = c],
               Deep(cmd, s, outer, 0)
        PROVE  EmuDeep'
    <2>1. call'[t] = c /\ \A u \in EmuThread : u # t => call'[u] = call[u]
      BY <1>1, <1>3
    <2> QED
      BY <1>1, <1>2, <1>3, <2>1, DeepStep DEF Starts
  <1>4. /\ Deep("open", Look1, <<"bigV">>, 0) /\ Deep("open", Creat1, <<>>, 0) /\ Deep("io", Io5, <<>>, 0) /\ Deep("io", Io1, <<>>, 0)
        /\ Deep("close", Drop1, <<"bigV">>, 0)
    BY DEF Deep, LookDeep, CreatDeep, Moving, DropDeep
  <1>5. CASE call' = [call EXCEPT ![t] = emufs_lookup]
    BY <1>3, <1>4, <1>5, BeginFits
  <1>6. CASE call' = [call EXCEPT ![t] = emufs_creat]
    BY <1>3, <1>4, <1>6, BeginFits
  <1>7. CASE \E c \in {EmuStat(has[t]), EmuIo(has[t], 1), EmuIo(has[t], 2)} : call' = [call EXCEPT ![t] = c]
    <2>1. PICK c \in {EmuStat(has[t]), EmuIo(has[t], 1), EmuIo(has[t], 2)} : call' = [call EXCEPT ![t] = c]
      BY <1>7
    <2>2. Starts(c, Io5, "io", has[t], <<>>) \/ Starts(c, Io1, "io", has[t], <<>>)
      BY <1>1, BeginFits
    <2> QED
      BY <1>3, <1>4, <2>1, <2>2
  <1>8. CASE call' = [call EXCEPT ![t] = VOP_DECREF(has[t])]
    <2>1. Starts(VOP_DECREF(has[t]), Drop1, "close", has[t], <<"bigV">>)
      BY <1>1, BeginFits
    <2> QED
      BY <1>3, <1>4, <1>8, <2>1
  <1> QED
    BY <1>5, <1>6, <1>7, <1>8 DEF EmuBegin

LEMMA EmuNextDeep ==
  ASSUME EmuInv, EmuDeep, LoadFails \subseteq {"array"}, [EmuNext]_emuVars
  PROVE  EmuDeep'
  <1>1. CASE UNCHANGED <<emubig, call>>
    BY <1>1 DEF EmuDeep, Depth
  <1>2. CASE \E t \in EmuThread : EmuBegin(t)
    BY <1>2, BeginDeep
  <1>3. CASE \E t \in EmuThread : EmuStep(t)
    <2>1. PICK t \in EmuThread : EmuStep(t)
      BY <1>3
    <2>2. CASE vfs_biglock_acquire(t) \/ vfs_biglock_release(t)
      BY <2>2, BigDeep
    <2>3. CASE EmuLock(t) \/ EmuUnlock(t) \/ emu_wreg(t) \/ RemoveVnode(t)
      <3>1. emubig' = emubig /\ Goto(t, Rest(t)) /\ \E w : w \notin {"bigP", "bigV"} /\ At(t, w)
        BY <2>3 DEF EmuLock, EmuUnlock, emu_wreg, RemoveVnode
      <3> QED
        BY <3>1, PlainDeep
    <2>4. CASE emu_waitdone(t)
      BY <2>4, WaitDeep
    <2>5. CASE Load(t)
      BY <2>5, LoadKeepsDeep
    <2>6. CASE Decref(t) \/ CheckCount(t)
      BY <2>6, DropKeepsDeep
    <2> QED
      BY <2>1, <2>2, <2>3, <2>4, <2>5, <2>6 DEF EmuStep
  <1> QED
    BY <1>1, <1>2, <1>3 DEF EmuNext, Emulate, emu_irq, VOP_INCREF, emuVars

LEMMA EmuDeepInitial == EmuInit => EmuDeep
  <1> SUFFICES ASSUME EmuInit
               PROVE  EmuDeep
    OBVIOUS
  <1>1. emubig = [who |-> NoHolder, depth |-> 0] /\ \A t \in EmuThread : call[t].cmd = "none"
    BY NoCallIs DEF EmuInit
  <1>2. \A t \in EmuThread : Depth(t) = 0
    BY <1>1 DEF Depth
  <1> QED
    BY <1>1, <1>2 DEF EmuDeep, Deep

LEMMA EmuDeepOrdered ==
  ASSUME EmuInv, EmuDeep
  PROVE  LocksOrdered
  <1>1. ASSUME NEW t \in EmuThread, call[t] = NoCall
        PROVE  e_lock # t /\ emubig.who # t
    <2>1. e_lock # t /\ call[t].cmd = "none"
      BY <1>1, Resting
    <2>2. Depth(t) = 0
      BY <2>1 DEF EmuDeep, Deep
    <2> QED
      BY <2>1, <2>2, EmuAssumption DEF Depth, EmuDeep
  <1>2. ASSUME e_lock # NoHolder
        PROVE  ~At(e_lock, "bigP") /\ ~At(e_lock, "eP")
    <2>1. e_lock \in EmuThread /\ LockedIn(call[e_lock].todo) /\ Fits(call[e_lock].cmd, call[e_lock].todo, call[e_lock].outer)
      BY <1>2 DEF EmuInv, EmuTypes, EmuLocked, EmuFits, CallFits
    <2> QED
      BY <2>1, AtIs, LockFits
  <1> QED
    BY <1>1, <1>2 DEF LocksOrdered

\* emu.c keeps its handles, as above, and its locks: a thread outside a call
\* holds neither vfs_biglock nor e_lock, and whoever holds e_lock waits for
\* neither.  What may fail in emufs_loadvnode is the growing of ef_vnodes,
\* which gives back both locks; a kmalloc that fails does not, and for it the
\* statement is false (emu.c:1179).
THEOREM EmuSoundThm ==
  ASSUME LoadFails \subseteq {"array"}
  PROVE  EmuSpec => []EmuSound
  <1>1. EmuInit => EmuInv /\ EmuDeep
    BY EmuInitial, EmuDeepInitial
  <1>2. EmuInv /\ EmuDeep /\ [EmuNext]_emuVars => (EmuInv /\ EmuDeep)'
    BY EmuNextKeeps, EmuNextDeep
  <1>3. EmuInv /\ EmuDeep => EmuSound
    BY EmuInvHandles, EmuDeepOrdered DEF EmuSound
  <1> QED
    BY <1>1, <1>2, <1>3, PTL DEF EmuSpec
=============================================================================
