--------------------------------- MODULE Emu ---------------------------------
(***************************************************************************)
(* The emulator's pass-through file system, kern/dev/lamebus/emu.c: files   *)
(* are handles of the simulated hardware, one operation at a time, ended by *)
(* an interrupt.                                                            *)
(*                                                                         *)
(* A call is the list of its steps: taking and giving back vfs_biglock      *)
(* ("bigP", "bigV", recursive) and e_lock ("eP", "eV"), starting the         *)
(* hardware ("op"), waiting for it ("wait"), and the work on the table of    *)
(* vnodes ("load", "decref", "remove").  Names and contents are      *)
(* left out; every open gives a handle of its own.                          *)
(***************************************************************************)
EXTENDS Integers, Sequences, FiniteSets

CONSTANTS
    EmuThread,
    Handle,         \* the hardware's handles, besides EMU_ROOTHANDLE
    LoadFails,      \* what may fail in emufs_loadvnode: "kmalloc", "array"
    MaxCalls,       \* bound: calls in a run
    MaxErrors,      \* bound: errors in a run
    RETRIES         \* emu_close's (10 in the code)

VARIABLES
    e_lock, e_sem, e_result,
    emubig,         \* vfs_biglock: who has it, and how often
    reg,            \* the hardware: what it does, with which handle, how far it is
    hwopen,         \* the handles it has open
    ef_vnodes,      \* vn_refcount of the vnode of every handle; 0: none
    call,           \* what each thread does
    has,            \* the vnode each thread has a reference to, by handle
    gaveup,         \* the handles whose close failed once too often
    calls, errors

emuVars == <<e_lock, e_sem, e_result, emubig, reg, hwopen, ef_vnodes, call, has, gaveup, calls, errors>>

NoHolder == "nobody"
EMU_ROOTHANDLE == "root"

ASSUME EmuAssumption ==
    /\ IsFiniteSet(EmuThread) /\ NoHolder \notin EmuThread /\ EMU_ROOTHANDLE \notin Handle
    /\ LoadFails \subseteq {"kmalloc", "array"} /\ RETRIES \in Nat

NoCall == [todo |-> <<>>, cmd |-> "none", h |-> EMU_ROOTHANDLE, outer |-> <<>>, tries |-> 0]

EmuInit ==
    /\ e_lock = NoHolder /\ e_sem = 0 /\ e_result = "none"
    /\ emubig = [who |-> NoHolder, depth |-> 0]
    /\ reg = [stat |-> "idle", oper |-> "none", h |-> EMU_ROOTHANDLE]
    /\ hwopen = {}
    /\ ef_vnodes = [h \in Handle |-> 0]
    /\ call = [t \in EmuThread |-> NoCall]
    /\ has = [t \in EmuThread |-> EMU_ROOTHANDLE] /\ gaveup = {}
    /\ calls = 0 /\ errors = 0

-----------------------------------------------------------------------------
(* The calls *)

emu_open == <<"eP", "op", "wait", "eV">>
emu_close == <<"eP", "op", "wait", "eV">>
\* Mutant: the locks in the order in which it needs them.
emufs_loadvnode_elock == <<"eP", "bigP", "load", "bigV", "eV">>
emufs_loadvnode == <<"bigP", "eP", "load", "eV", "bigV">>

\* vfs_lookup holds vfs_biglock around VOP_LOOKUP; vfs_open holds nothing around VOP_CREAT.
emufs_lookup == [NoCall EXCEPT !.todo = <<"bigP">> \o emu_open \o emufs_loadvnode \o <<"bigV">>,
                               !.cmd = "open", !.outer = <<"bigV">>]
emufs_creat == [NoCall EXCEPT !.todo = emu_open \o emufs_loadvnode, !.cmd = "open"]

\* emu_doread, emu_write, emu_getsize and emu_trunc: one operation.
emu_doread == <<"eP", "op", "wait", "eV">>

\* VOP_STAT and VOP_TRUNCATE.
EmuStat(h) == [NoCall EXCEPT !.todo = emu_doread, !.cmd = "io", !.h = h]

\* VOP_READ, VOP_GETDIRENTRY and VOP_WRITE: an operation for every EMU_MAXIO
\* bytes.
EmuIo(h, n) == [NoCall EXCEPT !.todo = IF n = 1 THEN emu_doread ELSE emu_doread \o emu_doread, !.cmd = "io", !.h = h]

VOP_DECREF(h) == [NoCall EXCEPT !.todo = <<"bigP", "decref", "bigV">>, !.cmd = "close", !.h = h, !.outer = <<"bigV">>]

\* Both locks are held from the test of the count to the removal.
emufs_reclaim == <<"bigP", "eP", "check", "op", "wait", "remove", "eV", "bigV">>

\* A thread without a file opens one, or is given a reference to another's, as
\* a new process is to its parent's directory.
EmuBegin(t) ==
    /\ call[t] = NoCall /\ calls < MaxCalls
    /\ calls' = calls + 1
    /\ \/ /\ has[t] = EMU_ROOTHANDLE
          /\ call' = [call EXCEPT ![t] = emufs_lookup]
          /\ UNCHANGED has
       \/ /\ has[t] = EMU_ROOTHANDLE
          /\ call' = [call EXCEPT ![t] = emufs_creat]
          /\ UNCHANGED has
       \/ /\ has[t] # EMU_ROOTHANDLE
          /\ \E c \in {EmuStat(has[t]), EmuIo(has[t], 1), EmuIo(has[t], 2)} : call' = [call EXCEPT ![t] = c]
          /\ UNCHANGED has
       \/ /\ has[t] # EMU_ROOTHANDLE
          /\ call' = [call EXCEPT ![t] = VOP_DECREF(has[t])]
          /\ has' = [has EXCEPT ![t] = EMU_ROOTHANDLE]
    /\ UNCHANGED <<e_lock, e_sem, e_result, emubig, reg, hwopen, ef_vnodes, errors, gaveup>>

VOP_INCREF(t, u) ==
    /\ has[t] # EMU_ROOTHANDLE /\ call[t] = NoCall
    /\ has[u] = EMU_ROOTHANDLE /\ call[u] = NoCall
    /\ emubig.who = NoHolder
    /\ has' = [has EXCEPT ![u] = has[t]]
    /\ ef_vnodes' = [ef_vnodes EXCEPT ![has[t]] = @ + 1]
    /\ UNCHANGED <<e_lock, e_sem, e_result, emubig, reg, hwopen, call, calls, errors, gaveup>>

-----------------------------------------------------------------------------
(* The steps *)

At(t, step) == call[t].todo # <<>> /\ Head(call[t].todo) = step
Rest(t) == Tail(call[t].todo)
Goto(t, todo) == call' = [call EXCEPT ![t] = IF todo = <<>> THEN NoCall ELSE [@ EXCEPT !.todo = todo]]

vfs_biglock_acquire(t) ==
    /\ At(t, "bigP") /\ emubig.who \in {t, NoHolder}
    /\ emubig' = [who |-> t, depth |-> emubig.depth + 1]
    /\ Goto(t, Rest(t))
    /\ UNCHANGED <<e_lock, e_sem, e_result, reg, hwopen, ef_vnodes, has, calls, errors, gaveup>>

vfs_biglock_release(t) ==
    /\ At(t, "bigV")
    /\ emubig' = [who |-> IF emubig.depth = 1 THEN NoHolder ELSE t, depth |-> emubig.depth - 1]
    /\ Goto(t, Rest(t))
    /\ UNCHANGED <<e_lock, e_sem, e_result, reg, hwopen, ef_vnodes, has, calls, errors, gaveup>>

EmuLock(t) ==
    /\ At(t, "eP") /\ e_lock = NoHolder
    /\ e_lock' = t
    /\ Goto(t, Rest(t))
    /\ UNCHANGED <<e_sem, e_result, emubig, reg, hwopen, ef_vnodes, has, calls, errors, gaveup>>

EmuUnlock(t) ==
    /\ At(t, "eV")
    /\ e_lock' = NoHolder
    /\ Goto(t, Rest(t))
    /\ UNCHANGED <<e_sem, e_result, emubig, reg, hwopen, ef_vnodes, has, calls, errors, gaveup>>

emu_wreg(t) ==
    /\ At(t, "op")
    /\ reg' = [stat |-> "working", oper |-> call[t].cmd, h |-> call[t].h]
    /\ Goto(t, Rest(t))
    /\ UNCHANGED <<e_lock, e_sem, e_result, emubig, hwopen, ef_vnodes, has, calls, errors, gaveup>>

\* The hardware ends what it was told to do.
Emulate ==
    /\ reg.stat = "working"
    /\ \/ /\ reg.oper = "open"
          /\ \E h \in Handle \ hwopen :
               /\ reg' = [reg EXCEPT !.stat = "ok", !.h = h]
               /\ hwopen' = hwopen \union {h}
          /\ UNCHANGED errors
       \/ /\ reg.oper # "open"
          /\ reg' = [reg EXCEPT !.stat = "ok"]
          /\ hwopen' = IF reg.oper = "close" THEN hwopen \ {reg.h} ELSE hwopen
          /\ UNCHANGED errors
       \/ /\ errors < MaxErrors
          /\ reg' = [reg EXCEPT !.stat = "EIO"]
          /\ errors' = errors + 1
          /\ UNCHANGED hwopen
    /\ UNCHANGED <<e_lock, e_sem, e_result, emubig, ef_vnodes, call, has, calls, gaveup>>

emu_irq ==
    /\ reg.stat \in {"ok", "EIO"}
    /\ e_result' = reg.stat
    /\ e_sem' = e_sem + 1
    /\ reg' = [reg EXCEPT !.stat = "idle"]
    /\ UNCHANGED <<e_lock, emubig, hwopen, ef_vnodes, call, has, calls, errors, gaveup>>

\* What a call does when the hardware is done: an open that fails gives back
\* its locks, a transfer ends, a close is tried again, a failing reclaim
\* leaves the vnode.
AfterWait(t) ==
    LET c == call[t]
    IN  IF e_result = "ok" THEN [c EXCEPT !.todo = Rest(t), !.h = reg.h]
        ELSE CASE c.cmd = "open" -> [c EXCEPT !.todo = <<"eV">> \o c.outer]
               [] c.cmd = "io" -> [c EXCEPT !.todo = <<"eV">>]
               [] c.cmd = "close" /\ c.tries < RETRIES ->
                     [c EXCEPT !.todo = <<"op", "wait">> \o Rest(t), !.tries = @ + 1]
               [] OTHER -> [c EXCEPT !.todo = IF Head(Rest(t)) = "remove" THEN Tail(Rest(t)) ELSE Rest(t)]

emu_waitdone(t) ==
    /\ At(t, "wait") /\ e_sem > 0
    /\ e_sem' = e_sem - 1
    /\ call' = [call EXCEPT ![t] = AfterWait(t)]
    /\ gaveup' = IF e_result # "ok" /\ call[t].cmd = "close" /\ call[t].tries >= RETRIES
                   THEN gaveup \union {call[t].h} ELSE gaveup
    /\ UNCHANGED <<e_lock, e_result, emubig, reg, hwopen, ef_vnodes, has, calls, errors>>

\* The vnode of the handle is found or made.  When there is no memory for it
\* e_lock is given back and vfs_biglock is not; the handle is closed again.
Load(t) ==
    LET c == call[t]
    IN  /\ At(t, "load")
        /\ \/ /\ ef_vnodes' = [ef_vnodes EXCEPT ![c.h] = @ + 1]
              /\ has' = [has EXCEPT ![t] = c.h]
              /\ Goto(t, Rest(t))
              /\ UNCHANGED errors
           \/ \E f \in LoadFails :
              /\ ef_vnodes[c.h] = 0 /\ errors < MaxErrors
              /\ errors' = errors + 1
              /\ call' = [call EXCEPT ![t] =
                   [c EXCEPT !.cmd = "close",
                             !.todo = (IF f = "kmalloc" THEN <<"eV">> ELSE <<"eV", "bigV">>)
                                      \o emu_close \o c.outer]]
              /\ UNCHANGED <<ef_vnodes, has>>
        /\ UNCHANGED <<e_lock, e_sem, e_result, emubig, reg, hwopen, calls, gaveup>>

\* vnode_decref, under vfs_biglock: the last reference reclaims the vnode.
Decref(t) ==
    LET h == call[t].h
    IN  /\ At(t, "decref")
        /\ IF ef_vnodes[h] > 1
             THEN ef_vnodes' = [ef_vnodes EXCEPT ![h] = @ - 1] /\ Goto(t, Rest(t))
             ELSE Goto(t, emufs_reclaim \o Rest(t)) /\ UNCHANGED ef_vnodes
        /\ UNCHANGED <<e_lock, e_sem, e_result, emubig, reg, hwopen, has, calls, errors, gaveup>>

\* EBUSY if somebody has taken a reference.
CheckCount(t) ==
    /\ At(t, "check")
    /\ Goto(t, IF ef_vnodes[call[t].h] = 1 THEN Rest(t) ELSE <<"eV", "bigV">> \o call[t].outer)
    /\ UNCHANGED <<e_lock, e_sem, e_result, emubig, reg, hwopen, ef_vnodes, has, calls, errors, gaveup>>

\* vnodearray_remove and VOP_CLEANUP.
RemoveVnode(t) ==
    /\ At(t, "remove")
    /\ ef_vnodes' = [ef_vnodes EXCEPT ![call[t].h] = 0]
    /\ Goto(t, Rest(t))
    /\ UNCHANGED <<e_lock, e_sem, e_result, emubig, reg, hwopen, has, calls, errors, gaveup>>

EmuStep(t) ==
    \/ vfs_biglock_acquire(t) \/ vfs_biglock_release(t) \/ EmuLock(t) \/ EmuUnlock(t)
    \/ emu_wreg(t) \/ emu_waitdone(t) \/ Load(t) \/ Decref(t)
    \/ CheckCount(t) \/ RemoveVnode(t)

EmuNext ==
    \/ Emulate \/ emu_irq
    \/ \E t \in EmuThread : EmuBegin(t) \/ EmuStep(t)
    \/ \E t, u \in EmuThread : t # u /\ VOP_INCREF(t, u)

EmuSpec == EmuInit /\ [][EmuNext]_emuVars

-----------------------------------------------------------------------------
(* Properties *)

InHand(h) == {t \in EmuThread : call[t].h = h /\ call[t].cmd = "open"}
Closing(h) == {t \in EmuThread : call[t].h = h /\ call[t].cmd = "close"}
Users(h) == {t \in EmuThread : has[t] = h}

\* The hardware is never given a handle it does not have open, which would be
\* "got fatal result code"; every open handle is some vnode's or some call's,
\* so none is lost but by a close that failed for good; a vnode in use is loaded; and an answer is waited for by
\* the thread that asked (emu_irq, emufs_loadvnode, emufs_reclaim).
HandlesExact ==
    /\ reg.stat = "working" /\ reg.oper # "open" => reg.h \in hwopen
    /\ \A h \in Handle :
         /\ h \in hwopen /\ reg.h # h => ef_vnodes[h] > 0 \/ InHand(h) \union Closing(h) # {} \/ h \in gaveup
         /\ Users(h) # {} => h \in hwopen /\ ef_vnodes[h] >= Cardinality(Users(h))
    /\ reg.stat # "idle" \/ e_sem > 0 => \E t \in EmuThread : At(t, "wait") /\ e_lock = t
    /\ e_sem <= 1

\* A thread outside a call holds no lock, and whoever holds e_lock waits for
\* vfs_biglock only if it has it: the order in which emufs_reclaim and
\* emufs_loadvnode take them.
LocksOrdered ==
    /\ \A t \in EmuThread : call[t] = NoCall => e_lock # t /\ emubig.who # t
    /\ e_lock # NoHolder => (At(e_lock, "bigP") => emubig.who = e_lock) /\ ~At(e_lock, "eP")

\* The pass-through file system keeps its handles and its locks.
EmuSound == HandlesExact /\ LocksOrdered
=============================================================================
