------------------------------- MODULE Console -------------------------------
(***************************************************************************)
(* The console, kern/dev/generic/console.c, on the serial line of            *)
(* kern/dev/lamebus/lser.c.                                                  *)
(*                                                                         *)
(* Three kinds of code meet at the line: threads that write and sleep until   *)
(* the line is free, code with interrupts off that writes and polls, and the  *)
(* interrupt handler, which runs on the boot CPU while others go on.  ls_lock  *)
(* is a variable because the polling code waits inside it.  A character       *)
(* stands for its writer; what is typed is numbered.                         *)
(***************************************************************************)
EXTENDS Integers, Sequences, FiniteSets

CONSTANTS
    Writer,         \* threads that write to con: or print
    Poller,         \* CPUs that print with interrupts off
    Reader,         \* threads that read con:
    CONSOLE_INPUT_BUFFER_SIZE,
    DELAYBUFSIZE,
    MaxOut,         \* bound: characters written in a run
    MaxTyped        \* bound: characters typed in a run

\* A character is told from none by its writer.
ASSUME ConsoleAssumption ==
    /\ CONSOLE_INPUT_BUFFER_SIZE \in Nat \ {0}
    /\ DELAYBUFSIZE \in Nat /\ MaxOut \in Nat /\ MaxTyped \in Nat
    /\ "free" \notin Writer \union Poller \union Reader

VARIABLES
    attached,       \* the_console # NULL
    delayed,        \* delayed_outbuf: characters in it
    wthread,        \* each writer: what it does, characters left, has it the user lock
    poller, rthread,
    con_userlock_write, con_userlock_read,
    cs_wsem, cs_rsem,
    cs_gotchars, cs_gotchars_head, cs_gotchars_tail,
    ls_lock, ls_wbusy,
    line,           \* the hardware: the character being sent, and the two interrupts
    handler,        \* lser_irq: running, and what it still has to call
    masked,
    out, typed,     \* what came out; how much was typed (history)
    accepted, read, \* what con_input took, what readers got (history)
    overrun         \* the line was given a character while it sent another (history)

conVars == <<attached, delayed, wthread, poller, rthread, con_userlock_write, con_userlock_read,
             cs_wsem, cs_rsem, cs_gotchars, cs_gotchars_head, cs_gotchars_tail,
             ls_lock, ls_wbusy, line, handler, masked, out, typed, accepted, read, overrun>>

consVars == <<cs_wsem, cs_rsem, cs_gotchars, cs_gotchars_head, cs_gotchars_tail>>
userVars == <<con_userlock_write, con_userlock_read>>
history == <<out, typed, accepted, read, overrun>>

Free == "free"
IdleWriter == [at |-> "idle", left |-> 0, user |-> FALSE]
IdleHandler == [on |-> FALSE, start |-> FALSE, input |-> 0]
Slots == 0..(CONSOLE_INPUT_BUFFER_SIZE - 1)

ConInit ==
    /\ attached = FALSE /\ delayed = 0
    /\ wthread = [w \in Writer |-> IdleWriter]
    /\ poller = [p \in Poller |-> "idle"] /\ rthread = [r \in Reader |-> "idle"]
    /\ con_userlock_write = Free /\ con_userlock_read = Free
    /\ cs_wsem = 1 /\ cs_rsem = 0
    /\ cs_gotchars = [k \in Slots |-> 0] /\ cs_gotchars_head = 0 /\ cs_gotchars_tail = 0
    /\ ls_lock = Free /\ ls_wbusy = FALSE
    /\ line = [sending |-> Free, wirq |-> FALSE, rirq |-> FALSE, char |-> 0]
    /\ handler = IdleHandler /\ masked = FALSE
    /\ out = <<>> /\ typed = 0 /\ accepted = <<>> /\ read = <<>> /\ overrun = FALSE

-----------------------------------------------------------------------------
(* Start-up: until the console is found, output is kept. *)

putch_delayed ==
    /\ ~attached /\ delayed < DELAYBUFSIZE
    /\ delayed' = delayed + 1
    /\ UNCHANGED <<attached, wthread, poller, rthread, userVars, consVars, ls_lock, ls_wbusy, line,
                   handler, masked, history>>

\* config_con and flush_delay_buf, by the thread that boots.
config_con(w) ==
    /\ ~attached
    /\ attached' = TRUE /\ delayed' = 0
    /\ wthread' = [wthread EXCEPT ![w] = [IdleWriter EXCEPT !.at = IF delayed = 0 THEN "idle" ELSE "P",
                                                           !.left = delayed]]
    /\ UNCHANGED <<poller, rthread, userVars, consVars, ls_lock, ls_wbusy, line, handler, masked, history>>

-----------------------------------------------------------------------------
(* Threads that write *)

\* con_io, writing: two characters under the user lock.  kprintf: one, without.
BeginWrite(w) ==
    /\ attached /\ wthread[w].at = "idle" /\ Len(out) < MaxOut
    /\ \/ /\ con_userlock_write = Free
          /\ con_userlock_write' = w
          /\ wthread' = [wthread EXCEPT ![w] = [at |-> "P", left |-> 2, user |-> TRUE]]
       \/ /\ wthread' = [wthread EXCEPT ![w] = [at |-> "P", left |-> 1, user |-> FALSE]]
          /\ UNCHANGED con_userlock_write
    /\ UNCHANGED <<attached, delayed, poller, rthread, con_userlock_read, consVars, ls_lock, ls_wbusy,
                   line, handler, masked, history>>

\* putch_intr: P(cs_wsem), then lser_write.
putch_intr(w) ==
    /\ wthread[w].at = "P" /\ cs_wsem > 0
    /\ cs_wsem' = cs_wsem - 1
    /\ wthread' = [wthread EXCEPT ![w].at = "send"]
    /\ UNCHANGED <<attached, delayed, poller, rthread, userVars, cs_rsem, cs_gotchars, cs_gotchars_head,
                   cs_gotchars_tail, ls_lock, ls_wbusy, line, handler, masked, history>>

\* The line is given a character.
Send(who) ==
    /\ line' = [line EXCEPT !.sending = who]
    /\ overrun' = (overrun \/ line.sending # Free)

lser_write(w) ==
    /\ wthread[w].at = "send" /\ ls_lock = Free
    /\ ls_wbusy' = TRUE
    /\ Send(w)
    /\ wthread' = [wthread EXCEPT ![w].left = @ - 1, ![w].at = IF wthread[w].left > 1 THEN "P" ELSE "return"]
    /\ UNCHANGED <<attached, delayed, poller, rthread, userVars, consVars, ls_lock, handler, masked, out,
                   typed, accepted, read>>

WriteReturn(w) ==
    /\ wthread[w].at = "return"
    /\ wthread' = [wthread EXCEPT ![w] = IdleWriter]
    /\ con_userlock_write' = IF wthread[w].user THEN Free ELSE con_userlock_write
    /\ UNCHANGED <<attached, delayed, poller, rthread, con_userlock_read, consVars, ls_lock, ls_wbusy,
                   line, handler, masked, history>>

-----------------------------------------------------------------------------
(* Code with interrupts off *)

lser_startpolling(p) ==
    /\ attached /\ poller[p] = "idle" /\ Len(out) < MaxOut
    /\ masked' = TRUE
    /\ poller' = [poller EXCEPT ![p] = "lock"]
    /\ UNCHANGED <<attached, delayed, wthread, rthread, userVars, consVars, ls_lock, ls_wbusy, line,
                   handler, history>>

\* lser_writepolled: wait until the line is free if somebody's character is
\* under way, send, wait until it is out.
PollLock(p) ==
    /\ poller[p] = "lock" /\ ls_lock = Free
    /\ ls_lock' = p
    /\ poller' = [poller EXCEPT ![p] = IF ls_wbusy THEN "until" ELSE "send"]
    /\ UNCHANGED <<attached, delayed, wthread, rthread, userVars, consVars, ls_wbusy, line, handler,
                   masked, history>>

PollUntilWrite(p) ==
    /\ poller[p] = "until" /\ line.wirq
    /\ line' = [line EXCEPT !.wirq = FALSE]
    /\ poller' = [poller EXCEPT ![p] = "send"]
    /\ UNCHANGED <<attached, delayed, wthread, rthread, userVars, consVars, ls_lock, ls_wbusy, handler,
                   masked, history>>

PollSend(p) ==
    /\ poller[p] = "send"
    /\ Send(p)
    /\ poller' = [poller EXCEPT ![p] = "sent"]
    /\ UNCHANGED <<attached, delayed, wthread, rthread, userVars, consVars, ls_lock, ls_wbusy, handler,
                   masked, out, typed, accepted, read>>

\* "If there wasn't already an IRQ pending, clear the ready condition."
StillReady == ls_wbusy

PollSent(p) ==
    /\ poller[p] = "sent" /\ line.wirq
    /\ line' = [line EXCEPT !.wirq = StillReady]
    /\ ls_lock' = Free
    /\ poller' = [poller EXCEPT ![p] = "end"]
    /\ UNCHANGED <<attached, delayed, wthread, rthread, userVars, consVars, ls_wbusy, handler, masked, history>>

lser_endpolling(p) ==
    /\ poller[p] = "end"
    /\ masked' = FALSE
    /\ poller' = [poller EXCEPT ![p] = "idle"]
    /\ UNCHANGED <<attached, delayed, wthread, rthread, userVars, consVars, ls_lock, ls_wbusy, line,
                   handler, history>>

-----------------------------------------------------------------------------
(* The hardware and the interrupt handler *)

Sent ==
    /\ line.sending # Free
    /\ out' = Append(out, line.sending)
    /\ line' = [line EXCEPT !.sending = Free, !.wirq = TRUE]
    /\ UNCHANGED <<attached, delayed, wthread, poller, rthread, userVars, consVars, ls_lock, ls_wbusy,
                   handler, masked, typed, accepted, read, overrun>>

\* A key is pressed; the line holds one.
Typed ==
    /\ attached /\ typed < MaxTyped /\ ~line.rirq
    /\ typed' = typed + 1
    /\ line' = [line EXCEPT !.rirq = TRUE, !.char = typed + 1]
    /\ UNCHANGED <<attached, delayed, wthread, poller, rthread, userVars, consVars, ls_lock, ls_wbusy,
                   handler, masked, out, accepted, read, overrun>>

\* The part inside ls_lock.
lser_irq ==
    /\ ~handler.on /\ ~masked /\ (line.wirq \/ line.rirq)
    /\ ls_lock = Free
    /\ handler' = [on |-> TRUE, start |-> line.wirq, input |-> IF line.rirq THEN line.char ELSE 0]
    /\ ls_wbusy' = IF line.wirq THEN FALSE ELSE ls_wbusy
    /\ line' = [line EXCEPT !.wirq = FALSE, !.rirq = FALSE]
    /\ UNCHANGED <<attached, delayed, wthread, poller, rthread, userVars, consVars, ls_lock, masked, history>>

con_start ==
    /\ handler.on /\ handler.start
    /\ cs_wsem' = cs_wsem + 1
    /\ handler' = [handler EXCEPT !.start = FALSE]
    /\ UNCHANGED <<attached, delayed, wthread, poller, rthread, userVars, cs_rsem, cs_gotchars,
                   cs_gotchars_head, cs_gotchars_tail, ls_lock, ls_wbusy, line, masked, history>>

nexthead(k) == (k + 1) % CONSOLE_INPUT_BUFFER_SIZE

\* Mutant: the buffer is filled to the last slot.
InputFull_never == FALSE
InputFull == nexthead(cs_gotchars_head) = cs_gotchars_tail

\* Overflow drops the character.
con_input ==
    /\ handler.on /\ ~handler.start /\ handler.input # 0
    /\ handler' = IdleHandler
    /\ IF InputFull THEN UNCHANGED <<consVars, accepted>>
       ELSE /\ cs_gotchars' = [cs_gotchars EXCEPT ![cs_gotchars_head] = handler.input]
            /\ cs_gotchars_head' = nexthead(cs_gotchars_head)
            /\ cs_rsem' = cs_rsem + 1
            /\ accepted' = Append(accepted, handler.input)
            /\ UNCHANGED <<cs_wsem, cs_gotchars_tail>>
    /\ UNCHANGED <<attached, delayed, wthread, poller, rthread, userVars, ls_lock, ls_wbusy, line, masked,
                   out, typed, read, overrun>>

HandlerReturn ==
    /\ handler.on /\ ~handler.start /\ handler.input = 0
    /\ handler' = IdleHandler
    /\ UNCHANGED <<attached, delayed, wthread, poller, rthread, userVars, consVars, ls_lock, ls_wbusy, line,
                   masked, history>>

-----------------------------------------------------------------------------
(* Threads that read *)

\* con_io, reading one character: lock, getch, uiomove, unlock.
BeginRead(r) ==
    /\ attached /\ rthread[r] = "idle" /\ con_userlock_read = Free
    /\ con_userlock_read' = r
    /\ rthread' = [rthread EXCEPT ![r] = "P"]
    /\ UNCHANGED <<attached, delayed, wthread, poller, con_userlock_write, consVars, ls_lock, ls_wbusy, line,
                   handler, masked, history>>

\* getch_intr: the character is read first, the tail moves afterwards.
GetchP(r) ==
    /\ rthread[r] = "P" /\ cs_rsem > 0
    /\ cs_rsem' = cs_rsem - 1
    /\ read' = Append(read, cs_gotchars[cs_gotchars_tail])
    /\ rthread' = [rthread EXCEPT ![r] = "move"]
    /\ UNCHANGED <<attached, delayed, wthread, poller, userVars, cs_wsem, cs_gotchars, cs_gotchars_head,
                   cs_gotchars_tail, ls_lock, ls_wbusy, line, handler, masked, out, typed, accepted, overrun>>

GetchMove(r) ==
    /\ rthread[r] = "move"
    /\ cs_gotchars_tail' = nexthead(cs_gotchars_tail)
    /\ con_userlock_read' = Free
    /\ rthread' = [rthread EXCEPT ![r] = "idle"]
    /\ UNCHANGED <<attached, delayed, wthread, poller, con_userlock_write, cs_wsem, cs_rsem, cs_gotchars,
                   cs_gotchars_head, ls_lock, ls_wbusy, line, handler, masked, history>>

ConStep ==
    \/ Sent \/ lser_irq \/ con_start \/ con_input \/ HandlerReturn
    \/ \E w \in Writer : putch_intr(w) \/ lser_write(w) \/ WriteReturn(w)
    \/ \E p \in Poller : PollLock(p) \/ PollUntilWrite(p) \/ PollSend(p) \/ PollSent(p) \/ lser_endpolling(p)
    \/ \E r \in Reader : GetchP(r) \/ GetchMove(r)

ConNext ==
    \/ ConStep \/ putch_delayed \/ Typed
    \/ \E w \in Writer : config_con(w) \/ BeginWrite(w)
    \/ \E p \in Poller : lser_startpolling(p)
    \/ \E r \in Reader : BeginRead(r)

ConSpec == ConInit /\ [][ConNext]_conVars

-----------------------------------------------------------------------------
(* Properties *)

Count(b) == IF b THEN 1 ELSE 0

\* The right to write is in one place: the semaphore, a thread about to send,
\* the busy line, or the handler about to hand it on.
OneToken ==
    cs_wsem + Cardinality({w \in Writer : wthread[w].at = "send"})
            + Count(ls_wbusy) + Count(handler.start) = 1

\* A busy line will be heard of: its character or its interrupt is still
\* there, or code that polls has taken the one and will restore the other.
WriteNotLost ==
    ls_wbusy => \/ line.sending # Free \/ line.wirq
                \/ \E p \in Poller : ls_lock = p /\ poller[p] \in {"send", "sent"}

\* Readers get what con_input took, in order and once.
InOrder ==
    LET n == (cs_gotchars_head - cs_gotchars_tail) % CONSOLE_INPUT_BUFFER_SIZE
        moving == Cardinality({r \in Reader : rthread[r] = "move"})
        waiting == [k \in 1..(n - moving) |->
                      cs_gotchars[(cs_gotchars_tail + moving + k - 1) % CONSOLE_INPUT_BUFFER_SIZE]]
    IN  /\ accepted = read \o waiting
        /\ cs_rsem = n - moving

\* The console never writes to a line that is not free (lser_write's panic),
\* never forgets that a write is under way, whatever polls in between, and
\* passes what is typed on in order (console.c, lser.c).
ConsoleSound == ~overrun /\ OneToken /\ WriteNotLost /\ InOrder
=============================================================================
