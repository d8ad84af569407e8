-------------------------------- MODULE Menu --------------------------------
(***************************************************************************)
(* Booting, the kernel menu and shutting down (kern/startup/main.c, menu.c).    *)
(*                                                                         *)
(* The menu cuts its line in place: strtok_r writes NULs into the buffer, once  *)
(* for the commands and, inside each command, for the words.  The words of a     *)
(* command are pointers into that buffer, and the thread of a program reads     *)
(* them there while the menu waits in P(no_proc_sem).  One letter stands for a   *)
(* command name or a word, " " for a space or a tab; the commands that call     *)
(* another component succeed or fail.                                        *)
(*                                                                         *)
(* Of the file systems two things matter here: the emulator's, which is never *)
(* unmounted, and one SFS volume, which a boot file system or a current       *)
(* directory on it keeps mounted.  Every process has a current directory of   *)
(* its own.                                                                 *)
(***************************************************************************)
EXTENDS Integers, Sequences, SequencesExt

CONSTANTS
    BootLine, TypedLine,    \* sets of lines: of the boot loader, and of the user
    MAXMENUARGS,
    MaxLines                \* bound: lines, the boot loader's included

VARIABLES
    mbuf,       \* the line, with the NULs written so far
    mline,      \* the line as it was (history)
    isargs, mat, mcommand, mcontext, mword, margs,
    progs,      \* the threads of the programs started
    sem,        \* no_proc_sem
    did,        \* what this line has asked of the rest of the kernel (history)
    bootfs, curdir, \* where the boot file system and the menu's p_cwd are
    volume,     \* the SFS volume: "unmounted", "mounted", "syncfailed"
    forkfailed, \* thread_fork has failed in common_prog (history)
    rebooter,   \* who is in shutdown: NOBODY, MENU or a program
    mlines, mboot, mdown

menuVars == <<mbuf, mline, isargs, mat, mcommand, mcontext, mword, margs, progs, sem, did, bootfs, curdir, volume,
              forkfailed, rebooter, mlines, mboot, mdown>>
dirs == <<bootfs, curdir, volume>>
halting == <<rebooter, mdown>>

NONE == "none"
NOBODY == -1
MENU == 0
NUL == "0"
SHELL == 0      \* the pointer to the constant "/bin/sh"

-----------------------------------------------------------------------------
(* Strings in the buffer *)

\* The first place from i on whose character is in S; every string ends with NUL.
First(i, S) == CHOOSE j \in i..Len(mbuf) : mbuf[j] \in S /\ \A k \in i..(j - 1) : mbuf[k] \notin S
Chars == Range(mbuf)
String(p) == IF p = SHELL THEN <<"/bin/sh">>
             ELSE IF p > Len(mbuf) THEN <<"garbage">> ELSE SubSeq(mbuf, p, First(p, {NUL}) - 1)

Strings(ps) == [j \in 1..Len(ps) |-> String(ps[j])]

\* strtok_r from i: the token's start (0: none), the buffer and the new context.
strtok_r(i, delims) ==
    IF i = 0 \/ \A j \in i..(First(i, {NUL}) - 1) : mbuf[j] \in delims
    THEN [token |-> 0, buf |-> mbuf, context |-> 0]
    ELSE LET start == First(i, Chars \ delims)
             end == First(start, delims \cup {NUL})
         IN  [token |-> start, buf |-> [mbuf EXCEPT ![end] = NUL],
              context |-> IF mbuf[end] = NUL THEN 0 ELSE end + 1]

-----------------------------------------------------------------------------
(* File systems.  What a call does when it succeeds. *)

\* The file systems that a name can lead to.
Reachable == {"emu"} \cup (IF volume = "mounted" THEN {"sfs"} ELSE {})

\* Somebody has a directory of the volume.
Busy == \/ "sfs" \in {bootfs, curdir}
        \/ \E k \in DOMAIN progs : progs[k].cwd = "sfs"

vfs_chdir == curdir' \in Reachable /\ UNCHANGED <<bootfs, volume>>
\* It changes the caller's current directory as well.
vfs_setbootfs(to) == \E fs \in to : bootfs' = fs /\ curdir' = fs /\ UNCHANGED volume
vfs_mount == volume = "unmounted" /\ volume' = "mounted" /\ UNCHANGED <<bootfs, curdir>>
vfs_unmount == volume = "mounted" /\ ~Busy /\ volume' = "unmounted" /\ UNCHANGED <<bootfs, curdir>>

-----------------------------------------------------------------------------
(* boot *)

\* What each stage uses of the earlier ones, and what it provides.
bootorder == <<
    [name |-> "ram_bootstrap", uses |-> {}, gives |-> {"stealmem"}],
    [name |-> "proc_bootstrap", uses |-> {"stealmem"}, gives |-> {"kproc"}],
    [name |-> "thread_bootstrap", uses |-> {"stealmem", "kproc"}, gives |-> {"curthread"}],
    [name |-> "hardclock_bootstrap", uses |-> {"stealmem"}, gives |-> {"lbolt"}],
    [name |-> "vfs_bootstrap", uses |-> {"stealmem", "curthread"}, gives |-> {"vfs"}],
    [name |-> "mainbus_bootstrap", uses |-> {"vfs", "lbolt", "curthread"}, gives |-> {"interrupts", "cpus", "console"}],
    [name |-> "pseudoconfig", uses |-> {"vfs", "interrupts"}, gives |-> {}],
    [name |-> "vm_bootstrap", uses |-> {"stealmem"}, gives |-> {"coremap"}],
    [name |-> "kprintf_bootstrap", uses |-> {"curthread"}, gives |-> {"kprintf_lock"}],
    [name |-> "thread_start_cpus", uses |-> {"cpus", "kprintf_lock", "coremap"}, gives |-> {"running"}],
    [name |-> "vfs_setbootfs", uses |-> {"vfs", "console"}, gives |-> {}] >>

Given(n) == UNION {bootorder[k].gives : k \in 1..n}

\* t_curspl is 1 until mainbus_bootstrap, which asserts it, turns interrupts on.
BootStage ==
    /\ mat = "boot" /\ mboot < Len(bootorder)
    /\ mboot' = mboot + 1
    /\ mat' = IF mboot' = Len(bootorder) THEN "start" ELSE mat
    /\ IF bootorder[mboot'].name = "vfs_setbootfs" THEN vfs_setbootfs({"emu"}) \/ UNCHANGED dirs ELSE UNCHANGED dirs
    /\ UNCHANGED <<mbuf, mline, isargs, mcommand, mcontext, mword, margs, progs, sem, did, forkfailed, mlines, halting>>

-----------------------------------------------------------------------------
(* menu and menu_execute *)

MenuInit ==
    /\ mbuf = <<NUL>> /\ mline = <<>> /\ isargs = TRUE /\ mat = "boot" /\ mcommand = 0 /\ mcontext = 0 /\ mword = 0
    /\ margs = <<>> /\ progs = <<>> /\ sem = 0 /\ did = <<>> /\ mlines = 0 /\ mboot = 0
    /\ bootfs = NONE /\ curdir = NONE /\ volume = "unmounted" /\ forkfailed = FALSE
    /\ rebooter = NOBODY /\ mdown = 0

\* The boot loader's line is the first; kgets reads the others.
menu ==
    /\ \/ mat = "start" /\ isargs' = TRUE /\ mline' \in BootLine
       \/ mat = "prompt" /\ mlines < MaxLines /\ isargs' = FALSE /\ mline' \in TypedLine
    /\ mlines' = mlines + 1
    /\ mbuf' = mline' \o <<NUL>> /\ mcontext' = 1 /\ mat' = "command"
    /\ did' = <<>>
    /\ UNCHANGED <<mcommand, mword, margs, progs, sem, forkfailed, mboot, dirs, halting>>

menu_execute ==
    LET t == strtok_r(mcontext, {";"})
    IN  /\ mat = "command"
        /\ mbuf' = t.buf /\ mcontext' = t.context /\ mcommand' = t.token
        /\ mword' = t.token /\ margs' = <<>>
        /\ mat' = IF t.token = 0 THEN "prompt" ELSE "words"
        /\ UNCHANGED <<mline, isargs, progs, sem, did, forkfailed, mlines, mboot, dirs, halting>>

\* cmd_dispatch has answered.
Answer(error) == mat' = IF error /\ isargs THEN "panic" ELSE "command"

-----------------------------------------------------------------------------
(* cmd_dispatch *)

MenuWords == LET t == strtok_r(mword, {" "})
         IN  /\ mat = "words"
             /\ mbuf' = t.buf /\ mword' = t.context
             /\ IF t.token = 0 THEN margs' = margs /\ (IF margs = <<>> THEN Answer(FALSE) ELSE mat' = "run")
                ELSE IF Len(margs) >= MAXMENUARGS THEN Answer(TRUE) /\ margs' = margs
                ELSE margs' = Append(margs, t.token) /\ mat' = mat
             /\ UNCHANGED <<mline, isargs, mcommand, mcontext, progs, sem, did, forkfailed, mlines, mboot, dirs, halting>>

Command(names) == mat = "run" /\ String(margs[1]) \in {<<n>> : n \in names}
Usage == Answer(TRUE) /\ UNCHANGED <<mbuf, progs, sem, did, margs, dirs>>
Asks(what) == did' = Append(did, what)
menuRest == <<mline, isargs, mcommand, mcontext, mword, mlines, mboot>>
menuState == <<menuRest, forkfailed, dirs, halting>>

\* A trailing colon is cut off the device name, in place.
StripColon(p) == LET end == First(p, {NUL}) - 1
                 IN  IF mbuf[end] = ":" THEN [mbuf EXCEPT ![end] = NUL] ELSE mbuf

\* The call Does is made with the string at p of the buffer buf, and may fail.
CallsWith(name, buf, p, Does) ==
    /\ mbuf' = buf
    /\ LET end == CHOOSE j \in p..Len(buf) : buf[j] = NUL /\ \A k \in p..(j - 1) : buf[k] # NUL
       IN  Asks(<<name, SubSeq(buf, p, end - 1)>>)
    /\ \/ Answer(FALSE) /\ Does
       \/ Answer(TRUE) /\ UNCHANGED dirs
    /\ UNCHANGED <<progs, sem, margs>>

cmd_chdir ==
    /\ Command({"c"})
    /\ IF Len(margs) # 2 THEN Usage ELSE CallsWith("c", mbuf, margs[2], vfs_chdir)
    /\ UNCHANGED <<menuRest, forkfailed, halting>>

\* mounttable has one file system, sfs.
cmd_mount ==
    /\ Command({"m"})
    /\ IF Len(margs) # 3 THEN Usage
       ELSE IF String(margs[2]) = <<"f">> THEN CallsWith("m", StripColon(margs[3]), margs[3], vfs_mount)
       ELSE mbuf' = StripColon(margs[3]) /\ Answer(TRUE) /\ UNCHANGED <<did, progs, sem, margs, dirs>>
    /\ UNCHANGED <<menuRest, forkfailed, halting>>

cmd_unmount ==
    /\ Command({"u"})
    /\ IF Len(margs) # 2 THEN Usage ELSE CallsWith("u", StripColon(margs[2]), margs[2], vfs_unmount)
    /\ UNCHANGED <<menuRest, forkfailed, halting>>

cmd_bootfs ==
    /\ Command({"b"})
    /\ IF Len(margs) # 2 THEN Usage ELSE CallsWith("b", StripColon(margs[2]), margs[2], vfs_setbootfs(Reachable))
    /\ UNCHANGED <<menuRest, forkfailed, halting>>

\* The commands that ignore their arguments and do not fail ("?": the help menus,
\* the statistics, dth; "y": sync), and those that may ("w": pwd; "t": the tests).
cmd_mainmenu == Command({"?"}) /\ Asks(<<"?">>) /\ Answer(FALSE) /\ UNCHANGED <<mbuf, progs, sem, margs, menuState>>
cmd_sync == Command({"y"}) /\ Asks(<<"y">>) /\ Answer(FALSE) /\ UNCHANGED <<mbuf, progs, sem, margs, menuState>>
cmd_pwd == /\ Command({"w", "t"}) /\ Asks(String(margs[1])) /\ \E e \in BOOLEAN : Answer(e)
           /\ UNCHANGED <<mbuf, progs, sem, margs, menuState>>

cmd_panic == Command({"!"}) /\ mat' = "panic" /\ Asks(<<"!">>) /\ UNCHANGED <<mbuf, progs, sem, margs, menuState>>

\* vfs_sync, then sys_reboot(RB_POWEROFF), which does not return.  (Two threads
\* in shutdown at once, possible after a failed thread_fork, are left out.)
cmd_quit ==
    /\ Command({"q"}) /\ rebooter = NOBODY
    /\ mat' = "shutdown" /\ rebooter' = MENU /\ Asks(<<"sync">>)
    /\ UNCHANGED <<mbuf, progs, sem, margs, menuRest, forkfailed, dirs, mdown>>

cmd_prog ==
    /\ Command({"p"})
    /\ IF Len(margs) < 2 THEN Usage
       ELSE mat' = "common_prog" /\ margs' = Tail(margs) /\ Asks(<<"program", Strings(Tail(margs))>>) /\ UNCHANGED <<mbuf, progs, sem, dirs>>
    /\ UNCHANGED <<menuRest, forkfailed, halting>>

cmd_shell ==
    /\ Command({"s"})
    /\ IF Len(margs) # 1 THEN Usage
       ELSE mat' = "common_prog" /\ margs' = <<SHELL>> /\ Asks(<<"program", Strings(<<SHELL>>)>>) /\ UNCHANGED <<mbuf, progs, sem, dirs>>
    /\ UNCHANGED <<menuRest, forkfailed, halting>>

NotFound ==
    /\ mat = "run" /\ ~Command({"c", "m", "u", "b", "?", "y", "w", "t", "!", "q", "p", "s"})
    /\ Usage /\ UNCHANGED <<menuRest, forkfailed, halting>>

-----------------------------------------------------------------------------
(* Programs.  One stands for the processes it forks, too. *)

Running == SelectSeq(progs, LAMBDA p : p.at # "gone")
Alive == mat \notin {"panic", "off"}

\* proc_create_runprogram, which copies the caller's current directory, may
\* fail.  So may thread_fork: proc_destroy then signals no_proc_sem if no
\* other process is left, and nobody waits for it.
common_prog ==
    /\ mat = "common_prog"
    /\ \/ /\ mat' = "P"
          /\ progs' = Append(progs, [args |-> margs, at |-> "start", got |-> <<>>, words |-> did[Len(did)][2],
                                     cwd |-> curdir])
          /\ UNCHANGED <<sem, forkfailed>>
       \/ Answer(TRUE) /\ UNCHANGED <<progs, sem, forkfailed>>
       \/ /\ Answer(TRUE) /\ forkfailed' = TRUE
          /\ sem' = IF Running = <<>> THEN sem + 1 ELSE sem
          /\ UNCHANGED progs
    /\ UNCHANGED <<mbuf, did, margs, menuRest, dirs, halting>>

MenuP == mat = "P" /\ sem > 0 /\ sem' = sem - 1 /\ Answer(FALSE) /\ UNCHANGED <<mbuf, progs, did, margs, menuState>>

\* The words that the thread finds: args is an array in the stack frame of
\* cmd_dispatch, and anything may be there once the menu has left it.
WordsFound(k) ==
    {Strings(progs[k].args)} \cup (IF mat = "P" /\ k = Len(progs) THEN {} ELSE {<<<<"garbage">>>>})

\* The thread copies the name and, after loading the program, copies out every
\* word; if that fails it returns, and thread_exit asserts that a user process
\* has left through sys__exit.
cmd_progthread(k) ==
    /\ progs[k].at = "start" /\ Alive
    /\ \/ \E words \in WordsFound(k) : progs' = [progs EXCEPT ![k].at = "user", ![k].got = words] /\ mat' = mat
       \/ progs' = progs /\ mat' = "panic"
    /\ UNCHANGED <<mbuf, sem, did, margs, menuState>>

\* sys__exit and proc_destroy: the current directory goes with the process, and
\* the last process to go signals the menu.
ProgramExits(k) ==
    /\ progs[k].at = "user" /\ Alive /\ rebooter # k
    /\ progs' = [progs EXCEPT ![k].at = "gone", ![k].cwd = NONE]
    /\ sem' = sem + (IF Len(Running) = 1 THEN 1 ELSE 0)
    /\ UNCHANGED <<mbuf, mat, did, margs, menuState>>

-----------------------------------------------------------------------------
(* sys_reboot and shutdown *)

\* sys_reboot called by a program, with one of the three codes.
sys_reboot(k) ==
    /\ progs[k].at = "user" /\ Alive /\ rebooter = NOBODY
    /\ rebooter' = k
    /\ UNCHANGED <<mbuf, mat, progs, sem, did, margs, menuRest, forkfailed, dirs, mdown>>

\* Only the caller's p_cwd is cleared.  If it is a process that a program
\* forked, the program keeps its own.
vfs_clearcurdir ==
    IF rebooter = MENU THEN curdir' = NONE /\ UNCHANGED progs
    ELSE UNCHANGED curdir /\ (UNCHANGED progs \/ progs' = [progs EXCEPT ![rebooter].cwd = NONE])

\* A volume that cannot be synced stays mounted, and so does one in use.
vfs_unmountall ==
    IF volume # "mounted" THEN UNCHANGED volume
    ELSE volume' = "syncfailed" \/ volume' = (IF Busy THEN "mounted" ELSE "unmounted")

\* Then the other CPUs stop, interrupts go off and the bus is asked for the
\* power to.
shutorder == <<"vfs_clearbootfs", "vfs_clearcurdir", "vfs_unmountall", "thread_shutdown", "splhigh">>

shutdown ==
    LET step == shutorder[mdown + 1]
    IN  /\ rebooter # NOBODY /\ Alive
        /\ bootfs' = IF step = "vfs_clearbootfs" THEN NONE ELSE bootfs
        /\ IF step = "vfs_clearcurdir" THEN vfs_clearcurdir ELSE UNCHANGED <<curdir, progs>>
        /\ IF step = "vfs_unmountall" THEN vfs_unmountall ELSE UNCHANGED volume
        /\ mdown' = mdown + 1
        /\ mat' = IF mdown' = Len(shutorder) THEN "off" ELSE mat
        /\ UNCHANGED <<mbuf, sem, did, margs, menuRest, forkfailed, rebooter>>

MenuNext ==
    \/ BootStage \/ menu \/ menu_execute \/ MenuWords
    \/ cmd_chdir \/ cmd_mount \/ cmd_unmount \/ cmd_bootfs \/ cmd_mainmenu \/ cmd_sync \/ cmd_pwd
    \/ cmd_panic \/ cmd_quit \/ cmd_prog \/ cmd_shell \/ NotFound
    \/ common_prog \/ MenuP \/ shutdown
    \/ \E k \in DOMAIN progs : cmd_progthread(k) \/ ProgramExits(k) \/ sys_reboot(k)

-----------------------------------------------------------------------------
(* Correctness *)

\* The pieces of a line between delimiters: its maximal runs of other characters.
Pieces(line, D) ==
    LET runs == {<<a, b>> \in (1..Len(line)) \X (1..Len(line)) :
                    /\ a <= b /\ \A i \in a..b : line[i] \notin D
                    /\ a = 1 \/ line[a - 1] \in D
                    /\ b = Len(line) \/ line[b + 1] \in D}
        order == SetToSortSeq(runs, LAMBDA r, q : r[1] < q[1])
    IN  [k \in 1..Len(order) |-> SubSeq(line, order[k][1], order[k][2])]

WithoutColon(w) == IF w[Len(w)] = ":" THEN SubSeq(w, 1, Len(w) - 1) ELSE w

\* What a command of these words asks for: one thing or nothing.
Meaning(w) ==
    LET Is(name, n) == w[1] = <<name>> /\ Len(w) = n
    IN  CASE w = <<>> \/ Len(w) > MAXMENUARGS -> <<>>
          [] Is("c", 2) -> <<<<"c", w[2]>>>>
          [] Is("m", 3) -> IF w[2] = <<"f">> THEN <<<<"m", WithoutColon(w[3])>>>> ELSE <<>>
          [] Is("u", 2) \/ Is("b", 2) -> <<<<w[1][1], WithoutColon(w[2])>>>>
          [] w[1] \in {<<"?">>, <<"y">>, <<"w">>, <<"t">>, <<"!">>} -> <<w[1]>>
          [] w[1] = <<"q">> -> <<<<"sync">>>>
          [] w[1] = <<"p">> /\ Len(w) >= 2 -> <<<<"program", Tail(w)>>>>
          [] Is("s", 1) -> <<<<"program", <<<<"/bin/sh">>>>>>>>
          [] OTHER -> <<>>

MeaningOf(line) ==
    LET commands == Pieces(line, {";"})
    IN  FlattenSeq([k \in 1..Len(commands) |-> Meaning(Pieces(commands[k], {" "}))])

\* A line, cut up in place by two nested strtok_r, does exactly what its text
\* says, command by command; every stage of boot finds what it uses already
\* there.  As long as no thread_fork has failed in common_prog, a program sees
\* the words of its own command, although it reads them in the menu's memory;
\* and q switches the machine off only with the volume unmounted, or unsynced.
MenuSound ==
    /\ mat # "boot" /\ mat # "start" => IsPrefix(did, MeaningOf(mline))
    /\ mat = "prompt" => did = MeaningOf(mline)
    /\ \A k \in 1..mboot : bootorder[k].uses \subseteq Given(k - 1)
    /\ ~forkfailed => \A k \in DOMAIN progs : progs[k].at = "user" => progs[k].got = progs[k].words
    /\ (mat = "off" /\ rebooter = MENU /\ ~forkfailed) => volume # "mounted"

\* Shutting down, "Opposite to boot()" (main.c:141), leaves no volume mounted.
\* It does not hold: a program's reboot leaves the menu's directory in use, and
\* a program that a failed thread_fork let the menu overtake keeps its own.
AllUnmounted == mat = "off" => volume # "mounted"

\* menu_execute: the commands of the boot loader's line panic the kernel when
\* they fail, those typed at the prompt only report it.
NoPanicAtPrompt == mat = "panic" => isargs \/ (did # <<>> /\ did[Len(did)] = <<"!">>)

=============================================================================
