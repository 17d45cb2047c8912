-------------------------------- MODULE Batch --------------------------------
(***************************************************************************)
(* batch: runs commands, at most N at a time (Processes and Signals/batch.c,*)
(* main's loop).  The program's steps are the system calls it makes; between*)
(* them its children exec, end and are killed, and signals arrive.          *)
(*                                                                         *)
(* The kernel's part: process ids are used again once a process has been    *)
(* reaped and its group is empty; setpgid of the parent fails after the     *)
(* child's exec, and for a group that has no process left.                  *)
(***************************************************************************)
EXTENDS Integers, FiniteSets

CONSTANTS
    NumCommands,    \* num_commands: how many commands there are
    N,              \* option.num_commands: how many may run at once
    Jobs,           \* lists of commands, given by what each does: "ok", "fail", "hang",
                    \* or "bad" (cannot be executed)
    Pid,            \* process ids
    Signals,        \* whether SIGINT, SIGQUIT or SIGTERM may arrive
    ForkFails       \* whether fork may fail

Cmd == 1..NumCommands

ASSUME BatchAssumption ==
    /\ NumCommands \in Nat \ {0}
    /\ N \in Nat \ {0}
    /\ Signals \in BOOLEAN /\ ForkFails \in BOOLEAN
    /\ Jobs \subseteq [Cmd -> {"ok", "fail", "hang", "bad"}]
    /\ Pid \subseteq Nat \ {0}

VARIABLES
    kind, e_flag,   \* the commands and option.e_flag
    pc,         \* "top" (line 46), "spawn" (51), "join" (66), "kill" (74), "wait" (86),
                \* "blocked" in waitpid, "done"
    signal_recieved, error, end,
    next,       \* the next command, from 1
    active, pgid,
    cpid,       \* cpid[c]: commands[c].pid
    announced,  \* announced[c]: how often "- " was printed for c
    child,      \* child[c]: "none", "forked", "running", "zombie", "reaped"
    pid,        \* pid[c]: the id of c's process, while there is one
    group,      \* group[c]: its process group, 0 for batch's own
    status      \* status[c]: how it ended: "ok", "fail", "killed"

args == <<kind, e_flag>>
program == <<pc, error, end, next, active, pgid, cpid, announced>>
kernel == <<child, pid, group, status>>
vars == <<args, program, signal_recieved, kernel>>

Alive(c) == child[c] \in {"forked", "running"}
Unreaped == {c \in Cmd : Alive(c) \/ child[c] = "zombie"}

TypeOK ==
    /\ kind \in Jobs /\ e_flag \in BOOLEAN
    /\ pc \in {"top", "spawn", "join", "kill", "wait", "blocked", "done"}
    /\ signal_recieved \in BOOLEAN /\ error \in BOOLEAN /\ end \in BOOLEAN
    /\ next \in 1..(NumCommands + 1)
    /\ active \in 0..NumCommands
    /\ pgid \in Pid \cup {-1}
    /\ cpid \in [Cmd -> Pid \cup {-1}]
    /\ announced \in [Cmd -> Nat]
    /\ child \in [Cmd -> {"none", "forked", "running", "zombie", "reaped"}]
    /\ pid \in [Cmd -> Pid \cup {0}]
    /\ group \in [Cmd -> Pid \cup {0}]
    /\ status \in [Cmd -> {"none", "ok", "fail", "killed"}]

Init ==
    /\ kind \in Jobs /\ e_flag \in BOOLEAN
    /\ pc = "top"
    /\ signal_recieved = FALSE /\ error = FALSE /\ end = FALSE
    /\ next = 1 /\ active = 0 /\ pgid = -1
    /\ cpid = [c \in Cmd |-> -1]
    /\ announced = [c \in Cmd |-> 0]
    /\ child = [c \in Cmd |-> "none"]
    /\ pid = [c \in Cmd |-> 0]
    /\ group = [c \in Cmd |-> 0]
    /\ status = [c \in Cmd |-> "none"]

-----------------------------------------------------------------------------
(* The children.                                                           *)

Exec(c) ==
    /\ child[c] = "forked" /\ kind[c] # "bad"
    /\ child' = [child EXCEPT ![c] = "running"]
    /\ UNCHANGED <<args, program, signal_recieved, pid, group, status>>

\* perror and exit(EXIT_FAILURE) in the child.
ExecFails(c) ==
    /\ child[c] = "forked" /\ kind[c] = "bad"
    /\ child' = [child EXCEPT ![c] = "zombie"]
    /\ status' = [status EXCEPT ![c] = "fail"]
    /\ UNCHANGED <<args, program, signal_recieved, pid, group>>

Finish(c) ==
    /\ child[c] = "running" /\ kind[c] \in {"ok", "fail"}
    /\ child' = [child EXCEPT ![c] = "zombie"]
    /\ status' = [status EXCEPT ![c] = kind[c]]
    /\ UNCHANGED <<args, program, signal_recieved, pid, group>>

\* on_signal.  A waitpid that is blocked returns with EINTR; one that has not
\* been entered yet knows nothing of it.
Signal ==
    /\ Signals /\ pc # "done"
    /\ signal_recieved' = TRUE
    /\ pc' = IF pc = "blocked" THEN "top" ELSE pc
    /\ UNCHANGED <<args, error, end, next, active, pgid, cpid, announced, kernel>>

-----------------------------------------------------------------------------
(* The program.                                                            *)

Top ==
    /\ pc = "top"
    /\ error' = (error \/ signal_recieved)
    /\ end' = (end \/ signal_recieved)
    /\ pc' = "spawn"
    /\ UNCHANGED <<args, next, active, pgid, cpid, announced, signal_recieved, kernel>>

\* Mutants: one command too many at a time; -e and signals do not stop new
\* commands; the end of the list is missed.
MaySpawnMore == ~end /\ active <= N /\ next <= NumCommands
MaySpawnOn == active < N /\ next <= NumCommands
MaySpawnPast == ~end /\ active < N

MaySpawn == ~end /\ active < N /\ next <= NumCommands

Fork ==
    /\ pc = "spawn" /\ MaySpawn
    /\ \E p \in Pid :
          /\ \A c \in Unreaped : pid[c] # p /\ group[c] # p
          /\ child' = [child EXCEPT ![next] = "forked"]
          /\ pid' = [pid EXCEPT ![next] = p]
    /\ pc' = "join"
    /\ UNCHANGED <<args, error, end, next, active, pgid, cpid, announced, signal_recieved,
                   group, status>>

\* fork returned -1, which is not tested: it is counted as a running command.
ForkFailed ==
    /\ ForkFails
    /\ pc = "spawn" /\ MaySpawn
    /\ active' = active + 1
    /\ next' = next + 1
    /\ UNCHANGED <<args, pc, error, end, pgid, cpid, announced, signal_recieved, kernel>>

SpawnDone ==
    /\ pc = "spawn" /\ ~MaySpawn
    /\ pc' = "kill"
    /\ UNCHANGED <<args, error, end, next, active, pgid, cpid, announced, signal_recieved, kernel>>

HasExeced(c) == child[c] = "running" \/ (child[c] = "zombie" /\ kind[c] # "bad")

\* setpgid(pid, pgid), its result ignored, and the bookkeeping.
Join ==
    LET p == pid[next]
        g == IF pgid < 0 THEN p ELSE pgid
        joins == ~HasExeced(next) /\ (g = p \/ \E c \in Unreaped : group[c] = g)
    IN
    /\ pc = "join"
    /\ pgid' = g
    /\ group' = IF joins THEN [group EXCEPT ![next] = g] ELSE group
    /\ cpid' = [cpid EXCEPT ![next] = p]
    /\ active' = active + 1
    /\ next' = next + 1
    /\ pc' = "spawn"
    /\ UNCHANGED <<args, error, end, announced, signal_recieved, child, pid, status>>

\* Mutant: the first command only is killed.
KillFirst ==
    LET hit == {c \in Cmd : end /\ pgid > 0 /\ Alive(c) /\ pid[c] = pgid} IN
    /\ child' = [c \in Cmd |-> IF c \in hit THEN "zombie" ELSE child[c]]
    /\ status' = [c \in Cmd |-> IF c \in hit THEN "killed" ELSE status[c]]

\* killpg(pgid, SIGKILL).
Killpg ==
    LET hit == {c \in Cmd : end /\ pgid > 0 /\ Alive(c) /\ group[c] = pgid} IN
    /\ child' = [c \in Cmd |-> IF c \in hit THEN "zombie" ELSE child[c]]
    /\ status' = [c \in Cmd |-> IF c \in hit THEN "killed" ELSE status[c]]

Kill ==
    /\ pc = "kill"
    /\ Killpg
    /\ pc' = IF active = 0 THEN "done" ELSE "wait"
    /\ UNCHANGED <<args, error, end, next, active, pgid, cpid, announced, signal_recieved,
                   pid, group>>

Block ==
    /\ pc = "wait"
    /\ Unreaped # {} /\ \A c \in Unreaped : Alive(c)
    /\ pc' = "blocked"
    /\ UNCHANGED <<args, error, end, next, active, pgid, cpid, announced, signal_recieved, kernel>>

\* Mutant: any failure of waitpid is taken for EINTR.
NoChildAgain ==
    /\ pc = "wait"
    /\ Unreaped = {}
    /\ pc' = "top"
    /\ UNCHANGED <<args, error, end, next, active, pgid, cpid, announced, signal_recieved, kernel>>

\* waitpid fails with ECHILD, which only a failed fork can bring about.
NoChild ==
    /\ pc = "wait"
    /\ Unreaped = {}
    /\ error' = TRUE
    /\ pc' = "done"
    /\ UNCHANGED <<args, end, next, active, pgid, cpid, announced, signal_recieved, kernel>>

\* find_process: the first entry with the id p, or none.
FindProcess(p) == {c \in Cmd : cpid[c] = p /\ \A d \in 1..c - 1 : cpid[d] # p}

Succeeded(c) == status[c] = "ok"

\* Mutant: commands[id].pid is not reset.
ReapKeepsPid(c) ==
    /\ pc \in {"wait", "blocked"}
    /\ child[c] = "zombie"
    /\ child' = [child EXCEPT ![c] = "reaped"]
    /\ announced' = [d \in Cmd |->
                        IF d \in FindProcess(pid[c]) THEN announced[d] + 1 ELSE announced[d]]
    /\ active' = active - 1
    /\ error' = (error \/ ~Succeeded(c))
    /\ end' = (end \/ (e_flag /\ ~Succeeded(c)))
    /\ pc' = "top"
    /\ UNCHANGED <<args, next, pgid, cpid, signal_recieved, pid, group, status>>

\* Mutant: a success after a failure clears error.
ReapClears(c) ==
    /\ pc \in {"wait", "blocked"}
    /\ child[c] = "zombie"
    /\ child' = [child EXCEPT ![c] = "reaped"]
    /\ announced' = [d \in Cmd |->
                        IF d \in FindProcess(pid[c]) THEN announced[d] + 1 ELSE announced[d]]
    /\ cpid' = [d \in Cmd |-> IF d \in FindProcess(pid[c]) THEN -1 ELSE cpid[d]]
    /\ active' = active - 1
    /\ error' = ~Succeeded(c)
    /\ end' = (end \/ (e_flag /\ ~Succeeded(c)))
    /\ pc' = "top"
    /\ UNCHANGED <<args, next, pgid, signal_recieved, pid, group, status>>

\* waitpid returns the process of c, and what follows up to the end of the loop.
Reap(c) ==
    /\ pc \in {"wait", "blocked"}
    /\ child[c] = "zombie"
    /\ child' = [child EXCEPT ![c] = "reaped"]
    /\ announced' = [d \in Cmd |->
                        IF d \in FindProcess(pid[c]) THEN announced[d] + 1 ELSE announced[d]]
    /\ cpid' = [d \in Cmd |-> IF d \in FindProcess(pid[c]) THEN -1 ELSE cpid[d]]
    /\ active' = active - 1
    /\ error' = (error \/ ~Succeeded(c))
    /\ end' = (end \/ (e_flag /\ ~Succeeded(c)))
    /\ pc' = "top"
    /\ UNCHANGED <<args, next, pgid, signal_recieved, pid, group, status>>

-----------------------------------------------------------------------------

Main == Top \/ Fork \/ ForkFailed \/ SpawnDone \/ Join \/ Kill \/ Block \/ NoChild
          \/ \E c \in Cmd : Reap(c)

Next == Main \/ Signal \/ \E c \in Cmd : Exec(c) \/ ExecFails(c) \/ Finish(c)

Spec == Init /\ [][Next]_vars

\* The scheduler runs the program and its children; a fork that is possible is
\* not required to fail, and no signal need come.
FairSpec ==
    /\ Spec
    /\ WF_vars(Main)
    /\ \A c \in Cmd : WF_vars(Exec(c) \/ ExecFails(c) \/ Finish(c))

-----------------------------------------------------------------------------
(* How the table of commands and the kernel agree: the inductive invariant. *)

\* Commands are started in order; between fork and setpgid the next one is not yet
\* in the table.
InOrder ==
    /\ \A c \in Cmd : child[c] # "none" => c < next \/ (c = next /\ pc = "join")
    /\ pc = "join" => next \in Unreaped

\* active counts the commands that were started, or would have been if their fork
\* had not failed, and have not been reaped.
Open == {c \in 1..next - 1 : child[c] # "reaped"}

Counted ==
    /\ active = Cardinality(Open) /\ active <= N
    /\ pc = "join" => active < N
    /\ pc \in {"wait", "blocked"} => active > 0

\* No two processes have one id, and the table has the ids of those that are left.
Ids ==
    /\ \A c \in Cmd : child[c] # "none" => pid[c] # 0
    /\ \A c, d \in Unreaped : pid[c] = pid[d] => c = d
    /\ \A c \in Cmd : cpid[c] = IF c < next /\ c \in Unreaped THEN pid[c] ELSE -1
    /\ \A c \in Cmd : announced[c] = IF child[c] = "reaped" THEN 1 ELSE 0

\* What error and end mean.
Reason ==
    /\ \A c \in Cmd : child[c] \in {"zombie", "reaped"} <=> status[c] # "none"
    /\ \A c \in Cmd : child[c] = "reaped" /\ status[c] # "ok" => error /\ (e_flag => end)
    /\ error => \/ signal_recieved
                \/ \E c \in Cmd : status[c] \in {"fail", "killed"}
                \/ \E c \in 1..next - 1 : child[c] = "none"
    /\ end => error

Stopping ==
    /\ pc = "join" => ~end
    /\ pc = "kill" => ~MaySpawn
    /\ pc = "done" => Unreaped = {} /\ (error \/ (active = 0 /\ ~MaySpawn))

IInv == TypeOK /\ InOrder /\ Counted /\ Ids /\ Reason /\ Stopping

-----------------------------------------------------------------------------
(* Properties.                                                             *)

\* No more than N children at a time, and none is left when batch ends, even
\* if forks fail: active is never less than the number of children.
Slots ==
    /\ Cardinality(Unreaped) <= N
    /\ pc = "done" => Unreaped = {}

\* Every child is announced once, under its own command, and when it has been
\* reaped, although process ids are used again.
Announced == \A c \in Cmd : announced[c] = IF child[c] = "reaped" THEN 1 ELSE 0

\* Exit status 0 means that every command ran and succeeded; anything else has
\* a cause: a failed command, a signal, or a failed fork.
ExitStatus ==
    pc = "done" =>
        \/ ~error /\ \A c \in Cmd : child[c] = "reaped" /\ status[c] = "ok"
        \/ /\ error
           /\ \/ signal_recieved
              \/ \E c \in Cmd : status[c] \in {"fail", "killed"}
              \/ \E c \in 1..next - 1 : child[c] = "none"

\* Once a failed command has been reaped under -e, no command is started.
NoneAfterFailure ==
    [][e_flag /\ (\E c \in Cmd : child[c] = "reaped" /\ status[c] # "ok") =>
          \A c \in Cmd : child[c] = "none" => child'[c] = "none"]_vars

\* batch ends when its commands do, whatever fails and whenever signals come.
Terminates == (\A c \in Cmd : kind[c] # "hang") ~> (pc = "done")

\* Once batch has decided to stop, it ends, although commands hang, if those
\* still alive are in the group it kills.
EndStops == (end /\ \A c \in Cmd : Alive(c) => group[c] = pgid /\ pgid > 0) ~> (pc = "done")

\* Under -e, a failed command takes all the others with it: none is alive when
\* batch waits again (out4.txt has no line of the second command).
FailureKillsRest ==
    end /\ ~signal_recieved /\ pc \in {"wait", "blocked"} => \A c \in Cmd : ~Alive(c)

=============================================================================
