------------------------------- MODULE Lamebus -------------------------------
(***************************************************************************)
(* The system bus: finding CPUs and cards, attaching drivers, dispatching     *)
(* interrupts and reading the clock (kern/dev/lamebus/lamebus.c, the          *)
(* *_att.c files, ltimer.c, kern/arch/sys161/dev/lamebus_machdep.c,           *)
(* kern/dev/generic/{beep,random,rtclock}.c and the generated autoconf.c).     *)
(*                                                                         *)
(* Which cards sit in which slots and which CPUs exist is chosen at the       *)
(* start.  Devices are found by the boot thread with interrupts on, and all    *)
(* interrupts go to the boot CPU, so a dispatch runs between two steps of the  *)
(* boot thread; code that polls a serial line on another CPU may mask the      *)
(* line or take its condition away at any time.                              *)
(***************************************************************************)
EXTENDS Integers, Sequences, FiniteSets

CONSTANTS
    LB_NSLOTS,      \* slots 0..LB_NSLOTS - 1; the last one is the controller's
    Present,        \* the classes of cards the slots may hold
    HwCpus,         \* hardware CPU numbers
    DudLimit,       \* 10000: dud interrupts before the bus panics
    Second, Small,  \* the clock: ticks per second, and ticks in 5 ms
    MaxIrqs,        \* bound: interrupts raised in a run
    MaxTime         \* bound: the clock

ASSUME BusAssumption ==
    /\ LB_NSLOTS \in Nat \ {0}
    /\ HwCpus \subseteq Nat /\ HwCpus # {} /\ IsFiniteSet(HwCpus)    \* bits of a 32-bit register
    /\ Second \in Nat /\ Small \in Nat \ {0} /\ 2 * Small <= Second

VARIABLES
    card, cpumask, self,        \* the hardware: what is in a slot, the CPUs, the one that boots
    ls_slotsinuse, ls_irqfuncs, \* struct lamebus_softc
    irqe,                       \* CTLREG_IRQE: the slots that are not masked
    boot,                       \* the boot thread: where it is, the class it looks for, the slot it found
    nextunit,                   \* the next unit number of each class (and child device)
    unit,                       \* the unit a slot was configured as, or -1
    the,                        \* the_beep, the_clock, the_random, the_console: their slot, or NONE
    allcpus, cram,              \* hardware number of each CPU structure; software number given to a CPU
    asserted, enabled,          \* slots that assert their line; slots allowed to
    dispatch,                   \* lamebus_interrupt: running, the slot it is at, irqs, duds_this_time
    duds, panicked,
    raised, driverless,         \* interrupts so far; one found no driver (history)
    clock, gettime              \* the clock card; ltimer_gettime in progress

busVars == <<card, cpumask, self, ls_slotsinuse, ls_irqfuncs, irqe, boot, nextunit, unit, the, allcpus,
             cram, asserted, enabled, dispatch, duds, panicked, raised, driverless, clock, gettime>>
hardware == <<card, cpumask, self>>
cpuVars == <<allcpus, cram>>
irqVars == <<asserted, enabled, dispatch, duds, raised, driverless>>
clockVars == <<clock, gettime>>

NONE == -1
LB_CONTROLLER_SLOT == LB_NSLOTS - 1
Slot == 0..(LB_NSLOTS - 1)

\* autoconf_lamebus: the classes in the order they are looked for.
Classes == <<"emu", "ltrace", "ltimer", "lrandom", "lhd", "lser">>
Child == {"beep", "rtclock", "random", "con"}

\* What autoconf_ltimer, autoconf_lrandom and autoconf_lser look for.
Children(c) == CASE c = "ltimer" -> <<"beep", "rtclock">> [] c = "lrandom" -> <<"random">>
                 [] c = "lser" -> <<"con">> [] OTHER -> <<>>

\* The attachments that call lamebus_attach_interrupt.
HasIrq(c) == c \in {"emu", "ltimer", "lhd", "lser"}

NotDispatching == [on |-> FALSE, slot |-> 0, irqs |-> {}, duds |-> 0]
NotReading == [at |-> "idle", start |-> 0, secs1 |-> 0, nsecs |-> 0, secs2 |-> 0, secs |-> 0]

BusInit ==
    /\ card \in [Slot -> Present \cup {"none"}] /\ card[LB_CONTROLLER_SLOT] = "none"
    /\ cpumask \in SUBSET HwCpus /\ self \in cpumask
    /\ ls_slotsinuse = {LB_CONTROLLER_SLOT} /\ ls_irqfuncs = [s \in Slot |-> NONE] /\ irqe = Slot
    /\ boot = [at |-> "cpus", class |-> 1, slot |-> NONE, kids |-> <<>>]
    /\ nextunit = [c \in {Classes[k] : k \in 1..Len(Classes)} \cup Child |-> 0]
    /\ unit = [s \in Slot |-> NONE] /\ the = [d \in Child |-> NONE]
    /\ allcpus = <<0>> /\ cram = [h \in HwCpus |-> NONE]
    /\ asserted = {} /\ enabled = {} /\ dispatch = NotDispatching /\ duds = 0 /\ panicked = "no"
    /\ raised = 0 /\ driverless = FALSE
    /\ clock = 0 /\ gettime = NotReading

-----------------------------------------------------------------------------
(* CPUs *)

\* The bits of a mask, lowest first.
Ascending(S) == CHOOSE q \in [1..Cardinality(S) -> S] : \A i, j \in DOMAIN q : i < j => q[i] < q[j]

\* lamebus_find_cpus: the boot CPU is structure 0 already; the others get
\* theirs in the order of their hardware numbers.
NewCpus == Ascending(cpumask \ {self})

lamebus_find_cpus ==
    /\ boot.at = "cpus"
    /\ allcpus' = <<self>> \o NewCpus
    /\ boot' = [boot EXCEPT !.at = "attach"]
    /\ UNCHANGED <<hardware, ls_slotsinuse, ls_irqfuncs, irqe, nextunit, unit, the, cram, irqVars, panicked,
                   clockVars>>

\* lamebus_start_cpus: software numbers 1, 2, ... to all but the boot CPU.
lamebus_start_cpus ==
    /\ boot.at = "done" /\ ~dispatch.on
    /\ LET others == Ascending(cpumask \ {self})
       IN  cram' = [h \in HwCpus |-> IF \E i \in DOMAIN others : others[i] = h
                                     THEN CHOOSE i \in DOMAIN others : others[i] = h ELSE NONE]
    /\ boot' = [boot EXCEPT !.at = "running"]
    /\ UNCHANGED <<hardware, ls_slotsinuse, ls_irqfuncs, irqe, nextunit, unit, the, allcpus, irqVars, panicked,
                   clockVars>>

-----------------------------------------------------------------------------
(* Looking for devices *)

\* The boot thread is not interrupted at this moment, and has not panicked.
Booting(at) == boot.at = at /\ ~dispatch.on /\ panicked = "no"

class == Classes[boot.class]

NextClass ==
    boot' = [at |-> IF boot.class = Len(Classes) THEN "done" ELSE "attach", class |-> boot.class + 1,
             slot |-> NONE, kids |-> <<>>]

\* lamebus_probe: the first slot with such a card that is not in use.
lamebus_probe(c) ==
    LET found == {s \in Slot \ ls_slotsinuse : card[s] = c}
    IN  IF found = {} THEN NONE ELSE CHOOSE s \in found : \A t \in found : s <= t

\* attach_*_to_lamebus up to lamebus_mark: no card, or no memory for the
\* driver's data, ends the search for the class.
Attaches ==
    /\ Booting("attach")
    /\ \/ NextClass
       \/ /\ lamebus_probe(class) # NONE
          /\ boot' = [boot EXCEPT !.at = "mark", !.slot = lamebus_probe(class)]
    /\ UNCHANGED <<hardware, ls_slotsinuse, ls_irqfuncs, irqe, nextunit, unit, the, cpuVars, irqVars, panicked,
                   clockVars>>

lamebus_mark ==
    /\ Booting("mark")
    /\ panicked' = IF boot.slot \in ls_slotsinuse THEN "mark" ELSE panicked
    /\ ls_slotsinuse' = ls_slotsinuse \cup {boot.slot}
    /\ boot' = [boot EXCEPT !.at = IF HasIrq(class) THEN "interrupt" ELSE "config"]
    /\ UNCHANGED <<hardware, ls_irqfuncs, irqe, nextunit, unit, the, cpuVars, irqVars, clockVars>>

lamebus_attach_interrupt ==
    /\ Booting("interrupt")
    /\ panicked' = IF boot.slot \notin ls_slotsinuse \/ ls_irqfuncs[boot.slot] # NONE THEN "attach" ELSE panicked
    /\ ls_irqfuncs' = [ls_irqfuncs EXCEPT ![boot.slot] = boot.slot]
    /\ boot' = [boot EXCEPT !.at = "config"]
    /\ UNCHANGED <<hardware, ls_slotsinuse, irqe, nextunit, unit, the, cpuVars, irqVars, clockVars>>

\* tryattach_*_to_lamebus after the attachment: configuration lets the card
\* interrupt; when it fails (only emu and lhd allocate) the search for the
\* class ends and nothing is taken back.
Config ==
    /\ Booting("config")
    /\ \/ /\ class \in {"emu", "lhd"} /\ NextClass
          /\ UNCHANGED <<nextunit, unit, enabled>>
       \/ /\ unit' = [unit EXCEPT ![boot.slot] = nextunit[class]]
          /\ nextunit' = [nextunit EXCEPT ![class] = @ + 1]
          /\ enabled' = IF HasIrq(class) THEN enabled \cup {boot.slot} ELSE enabled
          /\ boot' = [boot EXCEPT !.at = "child", !.kids = Children(class)]
    /\ UNCHANGED <<hardware, ls_slotsinuse, ls_irqfuncs, irqe, the, cpuVars, asserted, dispatch, duds, raised,
                   driverless, panicked, clockVars>>

\* autoconf_<class>, then the next card of the class.  A child's config
\* asserts that there is none yet; it may fail before it takes the device
\* (no memory), and the console and the random device may fail after it
\* (vfs_adddev).
TryChild ==
    /\ Booting("child")
    /\ IF boot.kids = <<>>
       THEN /\ boot' = [boot EXCEPT !.at = "attach", !.slot = NONE]
            /\ UNCHANGED <<the, nextunit, panicked>>
       ELSE LET d == Head(boot.kids)
            IN  /\ boot' = [boot EXCEPT !.kids = Tail(@)]
                /\ \/ UNCHANGED <<the, nextunit, panicked>>
                   \/ /\ nextunit[d] = 0
                      /\ panicked' = IF the[d] # NONE THEN d ELSE panicked
                      /\ the' = [the EXCEPT ![d] = boot.slot]
                      /\ \/ nextunit' = [nextunit EXCEPT ![d] = 1]
                         \/ d \in {"random", "con"} /\ UNCHANGED nextunit
    /\ UNCHANGED <<hardware, ls_slotsinuse, ls_irqfuncs, irqe, unit, cpuVars, irqVars, clockVars>>

-----------------------------------------------------------------------------
(* Interrupts *)

\* A card that was configured asserts its line.
Raise(s) ==
    /\ s \in enabled \ asserted /\ raised < MaxIrqs
    /\ asserted' = asserted \cup {s} /\ raised' = raised + 1
    /\ UNCHANGED <<hardware, ls_slotsinuse, ls_irqfuncs, irqe, boot, nextunit, unit, the, cpuVars, enabled,
                   dispatch, duds, panicked, driverless, clockVars>>

\* lser_startpolling, lser_endpolling on another CPU, and the end of
\* lser_writepolled there, which clears the condition.
MaskInterrupt(s) ==
    /\ boot.at = "running" /\ card[s] = "lser" /\ s \in enabled
    /\ \/ irqe' = (IF s \in irqe THEN irqe \ {s} ELSE irqe \cup {s}) /\ UNCHANGED asserted
       \/ s \in asserted /\ asserted' = asserted \ {s} /\ UNCHANGED irqe
    /\ UNCHANGED <<hardware, ls_slotsinuse, ls_irqfuncs, boot, nextunit, unit, the, cpuVars, enabled, dispatch,
                   duds, raised, driverless, panicked, clockVars>>

\* mainbus_interrupt finds the bus's line asserted.
mainbus_interrupt ==
    /\ ~dispatch.on /\ panicked = "no" /\ asserted \cap irqe # {} /\ gettime.at = "idle"
    /\ dispatch' = [NotDispatching EXCEPT !.on = TRUE, !.slot = NONE]
    /\ UNCHANGED <<hardware, ls_slotsinuse, ls_irqfuncs, irqe, boot, nextunit, unit, the, cpuVars, asserted,
                   enabled, duds, raised, driverless, panicked, clockVars>>

\* lamebus_interrupt, one slot (or the first read of CTLREG_IRQS) at a time.
ReadIrqs ==
    /\ dispatch.on /\ dispatch.slot = NONE
    /\ dispatch' = [dispatch EXCEPT !.slot = 0, !.irqs = asserted, !.duds = IF asserted = {} THEN 1 ELSE 0]
    /\ duds' = IF asserted = {} THEN duds + 1 ELSE duds
    /\ UNCHANGED <<hardware, ls_slotsinuse, ls_irqfuncs, irqe, boot, nextunit, unit, the, cpuVars, asserted,
                   enabled, raised, driverless, panicked, clockVars>>

\* A driver uses the slot and has installed a handler.
HasDriver(s) == s \in ls_slotsinuse /\ ls_irqfuncs[s] # NONE

ScanSlot ==
    LET s == dispatch.slot
    IN  /\ dispatch.on /\ s \in Slot
        /\ \/ /\ s \notin dispatch.irqs
              /\ dispatch' = [dispatch EXCEPT !.slot = s + 1]
              /\ UNCHANGED <<asserted, duds, driverless>>
           \/ /\ s \in dispatch.irqs /\ ~HasDriver(s)
              /\ dispatch' = [dispatch EXCEPT !.slot = s + 1, !.duds = @ + 1]
              /\ duds' = duds + 1 /\ driverless' = TRUE
              /\ UNCHANGED asserted
           \/ /\ s \in dispatch.irqs /\ HasDriver(s)
              /\ asserted' = asserted \ {s}
              /\ dispatch' = [dispatch EXCEPT !.slot = s + 1, !.irqs = asserted']
              /\ UNCHANGED <<duds, driverless>>
        /\ UNCHANGED <<hardware, ls_slotsinuse, ls_irqfuncs, irqe, boot, nextunit, unit, the, cpuVars, enabled,
                       raised, panicked, clockVars>>

DispatchEnds ==
    /\ dispatch.on /\ dispatch.slot = LB_NSLOTS
    /\ duds' = IF dispatch.duds = 0 THEN 0 ELSE duds
    /\ panicked' = IF duds' > DudLimit THEN "duds" ELSE panicked
    /\ dispatch' = NotDispatching
    /\ UNCHANGED <<hardware, ls_slotsinuse, ls_irqfuncs, irqe, boot, nextunit, unit, the, cpuVars, asserted,
                   enabled, raised, driverless, clockVars>>

-----------------------------------------------------------------------------
(* The clock *)

Tick ==
    /\ boot.at = "running" /\ clock < MaxTime
    /\ gettime.at # "idle" => clock + 1 - gettime.start < Small      \* the three reads take less than 5 ms
    /\ clock' = clock + 1
    /\ UNCHANGED <<hardware, ls_slotsinuse, ls_irqfuncs, irqe, boot, nextunit, unit, the, cpuVars, irqVars,
                   panicked, gettime>>

SEC == clock \div Second
NSEC == clock % Second

\* Which of the two readings of the seconds goes with the nanoseconds.
\* Mutant: always the first.
Seconds_first(r) == r.secs1
Seconds(r) == IF r.nsecs < Small THEN r.secs2 ELSE r.secs1

\* ltimer_gettime, one register at a time, with interrupts off.
ltimer_gettime ==
    /\ boot.at = "running" /\ ~dispatch.on /\ the["rtclock"] # NONE
    /\ \/ gettime.at = "idle"  /\ gettime' = [NotReading EXCEPT !.at = "nsecs", !.start = clock, !.secs1 = SEC]
       \/ gettime.at = "nsecs" /\ gettime' = [gettime EXCEPT !.at = "secs2", !.nsecs = NSEC]
       \/ gettime.at = "secs2" /\ gettime' = [gettime EXCEPT !.at = "got", !.secs2 = SEC]
       \/ gettime.at = "got"   /\ gettime' = NotReading
    /\ UNCHANGED <<hardware, ls_slotsinuse, ls_irqfuncs, irqe, boot, nextunit, unit, the, cpuVars, irqVars,
                   panicked, clock>>

BusNext ==
    \/ lamebus_find_cpus \/ lamebus_start_cpus
    \/ Attaches \/ lamebus_mark \/ lamebus_attach_interrupt \/ Config \/ TryChild
    \/ \E s \in Slot : Raise(s) \/ MaskInterrupt(s)
    \/ mainbus_interrupt \/ ReadIrqs \/ ScanSlot \/ DispatchEnds
    \/ Tick \/ ltimer_gettime

BusSpec == BusInit /\ [][BusNext]_busVars

-----------------------------------------------------------------------------
(* Properties *)

\* The slots with units of a class.
Units(c) == {s \in Slot : unit[s] # NONE /\ card[s] = c}

\* Units are numbered 0, 1, ... in the order of their slots, none twice, and a
\* slot's handler is its own.
UnitsExact ==
    /\ \A c \in {Classes[k] : k \in 1..Len(Classes)} :
         /\ {unit[s] : s \in Units(c)} = 0..(nextunit[c] - 1)
         /\ \A s, t \in Units(c) : s < t => unit[s] < unit[t]
    /\ \A s \in Slot : unit[s] # NONE => /\ s \in ls_slotsinuse
                                         /\ HasIrq(card[s]) => ls_irqfuncs[s] = s

\* A CPU that starts finds its own structure under the number it was given,
\* and the numbers are those of the structures (cpu_hatch asserts it).
CpuNumbersAgree ==
    boot.at = "running" =>
      /\ \A h \in cpumask \ {self} : cram[h] + 1 \in DOMAIN allcpus /\ allcpus[cram[h] + 1] = h
      /\ Len(allcpus) = Cardinality(cpumask) /\ allcpus[1] = self

\* The time gettime returns is one the clock showed between its first and its
\* last reading.
TimeTrue == gettime.at = "got" => Seconds(gettime) * Second + gettime.nsecs \in gettime.start..clock

\* The only ways to panic: a child device that took the machine's only
\* instance and then failed leaves its successor an assertion to fail, and
\* strays.
PanicsExplained ==
    /\ panicked \in {"no", "duds", "random", "con"}
    /\ ~driverless

\* Every card is found once and numbered in order, every interrupt meets its
\* driver, started CPUs find their structures and the clock is read right
\* (lamebus.c, autoconf.c, ltimer.c).
BusSound == UnitsExact /\ CpuNumbersAgree /\ TimeTrue /\ PanicsExplained
=============================================================================
