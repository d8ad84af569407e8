-------------------------------- MODULE Shell --------------------------------
(***************************************************************************)
(* The shell, user/bin/sh/sh.c: running commands in the foreground and the       *)
(* background, its table of background jobs, and wait.                          *)
(*                                                                         *)
(* The kernel's part is as sys_fork and sys_waitpid have it: a pid is free again *)
(* only after its parent has waited, waitpid refuses what is not a child, and    *)
(* refuses every option, WNOHANG too.  A line is what its words amount to.      *)
(***************************************************************************)
EXTENDS Integers, FiniteSets

CONSTANTS
    ShPid,          \* the pids the shell's children can get, positive numbers
    MAXBG,
    MaxCommands     \* bound: lines typed

VARIABLES
    bgpids,     \* slots: pid or 0
    child,      \* each pid: "none", "running", "zombie"
    background, \* pids started with & and not waited for (history)
    shat,       \* what the shell is doing
    shwait,     \* the pid it waits for
    shrest,     \* wait without argument: the slots still to look at
    typed

shVars == <<bgpids, child, background, shat, shwait, shrest, typed>>

Slots == 1..MAXBG
Free(i) == bgpids[i] = 0

ShInit ==
    /\ bgpids = [i \in Slots |-> 0] /\ child = [p \in ShPid |-> "none"] /\ background = {}
    /\ shat = "prompt" /\ shwait = 0 /\ shrest = {} /\ typed = 0

Least(S) == CHOOSE i \in S : \A j \in S : i <= j

\* Mutant: the last slot always counts as open.
can_bg_short == \E i \in Slots : Free(i) \/ i = MAXBG
can_bg == \E i \in Slots : Free(i)

\* remember_bg takes the first open slot; without one it fails its assertion.
remember_bg(pid) == IF \E i \in Slots : Free(i)
                    THEN bgpids' = [bgpids EXCEPT ![Least({i \in Slots : Free(i)})] = pid] /\ shat' = "poll"
                    ELSE shat' = "assert" /\ UNCHANGED bgpids

ShellTypes(at) == shat = "prompt" /\ typed < MaxCommands /\ typed' = typed + 1 /\ shat' = at

\* docommand: a command for the foreground or, if there is room, the background.
Types ==
    /\ \/ ShellTypes("fork")
       \/ can_bg /\ ShellTypes("fork&")
       \/ ~can_bg /\ ShellTypes("poll")
    /\ UNCHANGED <<bgpids, child, background, shwait, shrest>>

\* fork; the child runs until it exits.  In the parent: the table, or waitpid.
Forks1 ==
    /\ shat \in {"fork", "fork&"}
    /\ \E p \in ShPid :
         /\ child[p] = "none" /\ child' = [child EXCEPT ![p] = "running"]
         /\ IF shat = "fork&" THEN remember_bg(p) /\ background' = background \cup {p} /\ UNCHANGED shwait
            ELSE shat' = "waitpid" /\ shwait' = p /\ UNCHANGED <<bgpids, background>>
    /\ UNCHANGED <<shrest, typed>>

ForkFails ==
    /\ shat \in {"fork", "fork&"} /\ shat' = "poll"
    /\ UNCHANGED <<bgpids, child, background, shwait, shrest, typed>>

ChildExits(p) ==
    /\ child[p] = "running" /\ child' = [child EXCEPT ![p] = "zombie"]
    /\ UNCHANGED <<bgpids, background, shat, shwait, shrest, typed>>

Reap(p) == child' = [child EXCEPT ![p] = "none"] /\ background' = background \ {p}

\* waitpid of the foreground command.
WaitsForeground ==
    /\ shat = "waitpid" /\ child[shwait] = "zombie"
    /\ Reap(shwait) /\ shat' = "poll" /\ shwait' = 0
    /\ UNCHANGED <<bgpids, shrest, typed>>

\* cmd_wait with a pid, any pid; dowait, then the slots that hold it are cleared.
cmd_wait_pid ==
    /\ \E p \in ShPid : ShellTypes("dowait") /\ shwait' = p
    /\ UNCHANGED <<bgpids, child, background, shrest>>

cmd_wait_all ==
    /\ ShellTypes("each") /\ shrest' = Slots
    /\ UNCHANGED <<bgpids, child, background, shwait>>

\* waitpid fails at once for what is not a child.
dowait ==
    /\ shat = "dowait" /\ child[shwait] # "running"
    /\ IF child[shwait] = "zombie" THEN Reap(shwait) ELSE UNCHANGED <<child, background>>
    /\ bgpids' = [i \in Slots |-> IF bgpids[i] = shwait THEN 0 ELSE bgpids[i]]
    /\ shat' = "poll" /\ shwait' = 0
    /\ UNCHANGED <<shrest, typed>>

\* cmd_wait without one: every used slot in turn.
WaitsNext ==
    /\ shat = "each"
    /\ LET i == Least(shrest)
           p == bgpids[i]
       IN  IF shrest = {} THEN shat' = "poll" /\ UNCHANGED <<shrest, child, background, bgpids>>
           ELSE /\ p # 0 => child[p] # "running"
                /\ shrest' = shrest \ {i} /\ shat' = shat
                /\ IF p # 0 /\ child[p] = "zombie" THEN Reap(p) ELSE UNCHANGED <<child, background>>
                /\ bgpids' = [bgpids EXCEPT ![i] = 0]
    /\ UNCHANGED <<shwait, typed>>

\* waitpoll: sys_waitpid answers EINVAL to WNOHANG, so no slot is cleared.
waitpoll ==
    /\ shat = "poll" /\ shat' = "prompt"
    /\ UNCHANGED <<bgpids, child, background, shwait, shrest, typed>>

cmd_exit == ShellTypes("gone") /\ UNCHANGED <<bgpids, child, background, shwait, shrest>>

ShNext ==
    \/ Types \/ Forks1 \/ ForkFails \/ WaitsForeground \/ cmd_wait_pid \/ cmd_wait_all \/ dowait \/ WaitsNext
    \/ waitpoll \/ cmd_exit
    \/ \E p \in ShPid : ChildExits(p)

-----------------------------------------------------------------------------
(* Correctness *)

\* The table lists every background job not yet waited for, once, and nothing
\* else: so a slot never names a later process that got the same pid, the
\* assertion of remember_bg is not reached, and at the prompt no child is left
\* that nobody will wait for.
ShellSound ==
    /\ shat # "assert"
    /\ {bgpids[i] : i \in Slots} \ {0} = background
    /\ \A i, j \in Slots : i # j /\ bgpids[i] # 0 => bgpids[i] # bgpids[j]
    /\ shat = "prompt" => {p \in ShPid : child[p] # "none"} = background
=============================================================================
