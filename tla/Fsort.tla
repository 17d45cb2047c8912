-------------------------------- MODULE Fsort --------------------------------
(***************************************************************************)
(* fsort: merge sort by processes (Pipes/fsort.c).  fsort(base, n) forks a  *)
(* child for the latter half of the array, sorts the former half itself,    *)
(* reads the child's half from a pipe, waits for the child and merges.      *)
(*                                                                         *)
(* A process is named by the index at which its part of the array begins: a *)
(* child's part begins where the latter half does, and every call of one    *)
(* process begins at the same index, so that a call is given by its n.      *)
(* The pipe of a child has the child's name.  A descriptor that is open     *)
(* when a process forks is inherited by its child, which closes none but    *)
(* the read end of its own pipe.                                            *)
(***************************************************************************)
EXTENDS Integers, Sequences, FiniteSets

CONSTANTS
    N,          \* elements of the array
    Min,        \* min: the largest part that is sorted without a child
    Inputs,     \* arrays to be sorted: functions from 0..N-1 to Nat
    Cap,        \* how many elements a pipe holds
    MaxKills,   \* how many processes are killed from outside
    PipeMayFail, ForkMayFail, WaitMayFail

ASSUME FsortAssumption ==
    /\ N \in Nat \ {0} /\ Min \in Nat /\ Cap \in Nat \ {0} /\ MaxKills \in Nat
    /\ Inputs \subseteq [0..N - 1 -> Nat]
    /\ PipeMayFail \in BOOLEAN /\ ForkMayFail \in BOOLEAN /\ WaitMayFail \in BOOLEAN

Proc == 0..N - 1

VARIABLES
    input,      \* the array as the caller gave it
    at,         \* at[p]: where p is: "none", "call", "read", "wait", "write",
                \* "exit0", "exit1", "killed", "reaped"; fsort's result is at[0]
    stack,      \* stack[p]: its unfinished calls of fsort, the innermost first
    mem,        \* mem[p]: its copy of the array
    pipe,       \* pipe[c]: what c has written and its parent not yet read
    got,        \* got[c]: how many elements of c its parent has read
    rfd, wfd,   \* rfd[c], wfd[c]: who has the read and the write end of c's pipe
    kills,
    parent,     \* history: who forked p
    noFork,     \* history: a fork failed
    abandoned   \* history: the children for which waitpid failed

vars == <<input, at, stack, mem, pipe, got, rfd, wfd, kills, parent, noFork, abandoned>>

Alive(p) == at[p] \in {"call", "read", "wait", "write"}
Ended(p) == at[p] \in {"exit0", "exit1", "killed"}
n(p) == stack[p][1].n
Left(p) == n(p) \div 2
Right(p) == n(p) - Left(p)
Child(p) == p + Left(p)

TypeOK ==
    /\ input \in Inputs
    /\ at \in [Proc -> {"none", "call", "read", "wait", "write",
                        "exit0", "exit1", "killed", "reaped"}]
    /\ stack \in [Proc -> Seq([n : 1..N, err : BOOLEAN])]
    /\ mem \in [Proc -> [Proc -> Nat]]
    /\ pipe \in [Proc -> Seq(Nat)] /\ \A c \in Proc : Len(pipe[c]) <= Cap
    /\ got \in [Proc -> 0..N]
    /\ rfd \in [Proc -> SUBSET Proc] /\ wfd \in [Proc -> SUBSET Proc]
    /\ kills \in 0..MaxKills
    /\ parent \in [Proc -> Proc]
    /\ noFork \in BOOLEAN
    /\ abandoned \subseteq Proc

Init ==
    /\ input \in Inputs
    /\ at = [p \in Proc |-> IF p = 0 THEN "call" ELSE "none"]
    /\ stack = [p \in Proc |-> IF p = 0 THEN <<[n |-> N, err |-> FALSE]>> ELSE <<>>]
    /\ mem = [p \in Proc |-> input]
    /\ pipe = [p \in Proc |-> <<>>]
    /\ got = [p \in Proc |-> 0]
    /\ rfd = [p \in Proc |-> {}]
    /\ wfd = [p \in Proc |-> {}]
    /\ kills = 0
    /\ parent = [p \in Proc |-> 0]
    /\ noFork = FALSE
    /\ abandoned = {}

-----------------------------------------------------------------------------
(* Sorting in memory.                                                      *)

Part(a, lo, k) == [i \in 1..k |-> a[lo + i - 1]]
Put(a, lo, s) == [i \in Proc |-> IF i \in lo..lo + Len(s) - 1 THEN s[i - lo + 1] ELSE a[i]]

\* The loops of merge: what they make of s and t, from s[i] and t[j] on.
Merge(s, t) ==
    LET m[x \in (1..Len(s) + 1) \X (1..Len(t) + 1)] ==
            LET i == x[1]
                j == x[2]
            IN  IF i > Len(s) THEN SubSeq(t, j, Len(t))
                ELSE IF j > Len(t) THEN SubSeq(s, i, Len(s))
                ELSE IF s[i] <= t[j] THEN <<s[i]>> \o m[<<i + 1, j>>]
                ELSE <<t[j]>> \o m[<<i, j + 1>>]
    IN m[<<1, 1>>]

Outer[s \in Seq(Nat)] ==
    LET half == Len(s) \div 2
    IN  IF Len(s) <= 1 THEN s
        ELSE Merge(Outer[SubSeq(s, 1, half)], Outer[SubSeq(s, half + 1, Len(s))])

-----------------------------------------------------------------------------
(* A call of fsort.                                                        *)

\* The innermost call of p returns e: to the call it was made by, to the caller
\* of fsort, or to the child's code, which writes its part of the array.  (Where
\* the processes are: a.)
Return(p, e, a) ==
    LET rest == Tail(stack[p]) IN
    IF rest # <<>>
    THEN /\ at' = [a EXCEPT ![p] = "read"]
         /\ stack' = [stack EXCEPT ![p] = [rest EXCEPT ![1].err = @ \/ e]]
    ELSE IF p = 0
    THEN /\ at' = [a EXCEPT ![p] = IF e THEN "exit1" ELSE "exit0"]
         /\ stack' = [stack EXCEPT ![p] = <<>>]
    ELSE /\ at' = [a EXCEPT ![p] = "write"]
         /\ stack' = [stack EXCEPT ![p][1].err = e]

\* Mutant: the test of n <= 1 is missing.
WantsChildOne(p) == n(p) > Min

WantsChild(p) == n(p) > 1 /\ n(p) > Min

\* outer(base, n).
SortsHere(p) == mem' = [mem EXCEPT ![p] = Put(@, p, Outer[Part(@, p, n(p))])]

CallSmall(p) ==
    /\ at[p] = "call" /\ ~WantsChild(p)
    /\ SortsHere(p)
    /\ Return(p, FALSE, at)
    /\ UNCHANGED <<input, pipe, got, rfd, wfd, kills, noFork, abandoned, parent>>

PipeFails(p) ==
    /\ PipeMayFail
    /\ at[p] = "call" /\ WantsChild(p)
    /\ SortsHere(p)
    /\ Return(p, FALSE, at)
    /\ UNCHANGED <<input, pipe, got, rfd, wfd, kills, noFork, abandoned, parent>>

ForkFails(p) ==
    /\ ForkMayFail
    /\ at[p] = "call" /\ WantsChild(p)
    /\ Return(p, TRUE, at)
    /\ noFork' = TRUE
    /\ UNCHANGED <<input, mem, pipe, got, rfd, wfd, kills, abandoned, parent>>

\* Mutant: close(fds[1]) of the parent is missing.
ForkKeepsEnd(p) ==
    LET c == Child(p)
        Inherited(fd) == [d \in Proc |-> IF p \in fd[d] THEN fd[d] \cup {c} ELSE fd[d]]
    IN
    /\ at[p] = "call" /\ WantsChild(p)
    /\ at' = [at EXCEPT ![c] = "call"]
    /\ stack' = [stack EXCEPT ![c] = <<[n |-> Right(p), err |-> FALSE]>>,
                              ![p] = <<[n |-> Left(p), err |-> FALSE]>> \o @]
    /\ mem' = [mem EXCEPT ![c] = mem[p]]
    /\ rfd' = [Inherited(rfd) EXCEPT ![c] = {p}]
    /\ wfd' = [Inherited(wfd) EXCEPT ![c] = {p, c}]
    /\ parent' = [parent EXCEPT ![c] = p]
    /\ UNCHANGED <<input, pipe, got, kills, noFork, abandoned>>

\* pipe and fork.  Parent and child each close the end they do not use before
\* either forks again, so the closing is part of the step.
Fork(p) ==
    LET c == Child(p)
        Inherited(fd) == [d \in Proc |-> IF p \in fd[d] THEN fd[d] \cup {c} ELSE fd[d]]
    IN
    /\ at[p] = "call" /\ WantsChild(p)
    /\ at' = [at EXCEPT ![c] = "call"]
    /\ stack' = [stack EXCEPT ![c] = <<[n |-> Right(p), err |-> FALSE]>>,
                              ![p] = <<[n |-> Left(p), err |-> FALSE]>> \o @]
    /\ mem' = [mem EXCEPT ![c] = mem[p]]
    /\ rfd' = [Inherited(rfd) EXCEPT ![c] = {p}]
    /\ wfd' = [Inherited(wfd) EXCEPT ![c] = {c}]
    /\ parent' = [parent EXCEPT ![c] = p]
    /\ UNCHANGED <<input, pipe, got, kills, noFork, abandoned>>

-----------------------------------------------------------------------------
(* The parent: read_buffer, waitpid, merge.                                *)

\* close(fds[0]).
ReadEnds(p) ==
    /\ at' = [at EXCEPT ![p] = "wait"]
    /\ rfd' = [rfd EXCEPT ![Child(p)] = @ \ {p}]

\* Mutant: what one read() returns is taken for the whole half.
ReadOnce(p) ==
    LET c == Child(p) IN
    /\ at[p] = "read" /\ pipe[c] # <<>>
    /\ mem' = [mem EXCEPT ![p][c + got[c]] = Head(pipe[c])]
    /\ pipe' = [pipe EXCEPT ![c] = Tail(@)]
    /\ got' = [got EXCEPT ![c] = @ + 1]
    /\ ReadEnds(p)
    /\ UNCHANGED <<input, stack, wfd, kills, noFork, abandoned, parent>>

Read(p) ==
    LET c == Child(p) IN
    /\ at[p] = "read" /\ pipe[c] # <<>>
    /\ mem' = [mem EXCEPT ![p][c + got[c]] = Head(pipe[c])]
    /\ pipe' = [pipe EXCEPT ![c] = Tail(@)]
    /\ got' = [got EXCEPT ![c] = @ + 1]
    /\ IF got'[c] = Right(p) THEN ReadEnds(p) ELSE UNCHANGED <<at, rfd>>
    /\ UNCHANGED <<input, stack, wfd, kills, noFork, abandoned, parent>>

\* Mutant: the failure is returned at once, without waitpid.
ReadEofReturns(p) ==
    LET c == Child(p) IN
    /\ at[p] = "read" /\ pipe[c] = <<>> /\ wfd[c] = {}
    /\ rfd' = [rfd EXCEPT ![c] = @ \ {p}]
    /\ Return(p, TRUE, at)
    /\ UNCHANGED <<input, mem, pipe, got, wfd, kills, noFork, abandoned, parent>>

\* read returns 0: nobody has the write end any more.
ReadEof(p) ==
    LET c == Child(p) IN
    /\ at[p] = "read" /\ pipe[c] = <<>> /\ wfd[c] = {}
    /\ stack' = [stack EXCEPT ![p][1].err = TRUE]
    /\ ReadEnds(p)
    /\ UNCHANGED <<input, mem, pipe, got, wfd, kills, noFork, abandoned, parent>>

\* merge: the two halves as they are in memory; the whole part is sorted if
\* malloc fails.
Merged(p) ==
    LET s == Part(mem[p], p, Left(p))
        t == Part(mem[p], Child(p), Right(p))
    IN {Merge(s, t), Outer[s \o t]}

\* Mutant: any end of the child will do.
SucceededAny(c) == Ended(c)

\* WIFEXITED(status) && WEXITSTATUS(status) == 0.
Succeeded(c) == at[c] = "exit0"

Wait(p) ==
    LET c == Child(p) IN
    /\ at[p] = "wait" /\ Ended(c)
    /\ \E s \in Merged(p) : mem' = [mem EXCEPT ![p] = Put(@, p, s)]
    /\ Return(p, stack[p][1].err \/ ~Succeeded(c), [at EXCEPT ![c] = "reaped"])
    /\ UNCHANGED <<input, pipe, got, rfd, wfd, kills, noFork, abandoned, parent>>

\* waitpid returns -1: a handler of the caller's has interrupted it (EINTR), whether
\* or not the child has ended, or the caller ignores SIGCHLD (ECHILD).  The child
\* is not waited for again.
WaitFails(p) ==
    /\ WaitMayFail
    /\ at[p] = "wait"
    /\ \E s \in Merged(p) : mem' = [mem EXCEPT ![p] = Put(@, p, s)]
    /\ Return(p, TRUE, at)
    /\ abandoned' = abandoned \cup {Child(p)}
    /\ UNCHANGED <<input, pipe, got, rfd, wfd, kills, noFork, parent>>

-----------------------------------------------------------------------------
(* The child: write_to_buffer, close, _exit.                               *)

Sent(c) == got[c] + Len(pipe[c])

Write(c) ==
    /\ at[c] = "write" /\ Sent(c) < n(c)
    /\ rfd[c] # {} /\ Len(pipe[c]) < Cap
    /\ pipe' = [pipe EXCEPT ![c] = Append(@, mem[c][c + Sent(c)])]
    /\ UNCHANGED <<input, at, stack, mem, got, rfd, wfd, kills, noFork, abandoned, parent>>

\* c ends, which closes whatever it has open.
Ends(c, how) ==
    /\ at' = [at EXCEPT ![c] = how]
    /\ stack' = [stack EXCEPT ![c] = <<>>]
    /\ rfd' = [d \in Proc |-> rfd[d] \ {c}]
    /\ wfd' = [d \in Proc |-> wfd[d] \ {c}]

Exit(c) ==
    /\ at[c] = "write" /\ Sent(c) = n(c)
    /\ Ends(c, IF stack[c][1].err THEN "exit1" ELSE "exit0")
    /\ UNCHANGED <<input, mem, pipe, got, kills, noFork, abandoned, parent>>

\* SIGPIPE: nobody is left who could read.
BrokenPipe(c) ==
    /\ at[c] = "write" /\ Sent(c) < n(c) /\ rfd[c] = {}
    /\ Ends(c, "killed")
    /\ UNCHANGED <<input, mem, pipe, got, kills, noFork, abandoned, parent>>

Kill(c) ==
    /\ kills < MaxKills
    /\ c # 0 /\ Alive(c)
    /\ Ends(c, "killed")
    /\ kills' = kills + 1
    /\ UNCHANGED <<input, mem, pipe, got, noFork, abandoned, parent>>

-----------------------------------------------------------------------------

Step(p) == \/ CallSmall(p) \/ PipeFails(p) \/ ForkFails(p) \/ Fork(p)
           \/ Read(p) \/ ReadEof(p) \/ Wait(p) \/ WaitFails(p)
           \/ Write(p) \/ Exit(p) \/ BrokenPipe(p)

Next == \E p \in Proc : Step(p) \/ Kill(p)

Spec == Init /\ [][Next]_vars

\* The scheduler runs every process that can run; nobody need be killed.
FairSpec == Spec /\ \A p \in Proc : WF_vars(Step(p))

-----------------------------------------------------------------------------
(* Properties.                                                             *)

Sorted(a) == \A i \in 0..N - 2 : a[i] <= a[i + 1]

\* a and b have the same elements in S, and as often.
Count(a, S, v) == Cardinality({i \in S : a[i] = v})
SameOn(S, a, b) == \A v \in {a[i] : i \in S} \cup {b[i] : i \in S} : Count(a, S, v) = Count(b, S, v)
SameElements(a, b) == SameOn(Proc, a, b)

\* If fsort returns 0, the array is sorted and has the elements it was given,
\* whatever failed, in whichever process.
ZeroIsSorted == at[0] = "exit0" => Sorted(mem[0]) /\ SameElements(mem[0], input)

\* Even if fsort returns 1, no element is lost or doubled, unless a process was
\* killed while its half was under way.
NothingLost == at[0] \in {"exit0", "exit1"} /\ kills = 0 => SameElements(mem[0], input)

\* fsort returns 1 only if a child could not be created, could not be waited for, or
\* was killed: pipes that could not be had, pipes that fill, short reads and the order
\* in which processes end are no reason.
OneHasCause == at[0] = "exit1" => noFork \/ abandoned # {} \/ kills > 0

\* Nobody will wait for c, which has ended or sent all it had to send.
Forsaken(c) == c \in abandoned /\ (Alive(c) => at[c] = "write" /\ Sent(c) = n(c))

\* When fsort returns, the children of its process have been reaped, whatever
\* happened to them, but for those for which waitpid failed: these have ended or
\* sent all they had to send.  If no process was killed, the same is true of the
\* children of all others.
NoneLeft ==
    at[0] \in {"exit0", "exit1"} =>
        \A c \in Proc \ {0} :
            \/ at[c] \in {"none", "reaped"}
            \/ Forsaken(c)
            \/ kills > 0 /\ parent[c] # 0

-----------------------------------------------------------------------------
(* The inductive invariant.                                                *)

Calls(p) == 1..Len(stack[p])

\* The calls of p that have a child: all but one that has just been made.
Pending(p) == {i \in Calls(p) : i > 1 \/ at[p] \in {"read", "wait"}}
ChildOf(p, i) == p + stack[p][i].n \div 2
Share(p, i) == stack[p][i].n - stack[p][i].n \div 2

\* A process that runs has calls, of which each sorts the former half of the
\* part of the next; all of them stay within the array.
Stacks ==
    /\ \A p \in Proc :
           /\ Alive(p) <=> stack[p] # <<>>
           /\ \A i \in Calls(p) : p + stack[p][i].n <= N
           /\ \A i \in Calls(p) : i > 1 => stack[p][i - 1].n = stack[p][i].n \div 2
           /\ \A i, j \in Calls(p) : i < j => stack[p][i].n <= stack[p][j].n \div 2
           /\ at[p] = "write" => p # 0 /\ Len(stack[p]) = 1
    /\ at[0] \notin {"none", "killed", "reaped"}
    /\ stack[0] # <<>> => stack[0][Len(stack[0])].n = N

\* What a call has still to sort is nobody's part yet.
Fresh == \A p \in Proc : at[p] = "call" => \A q \in p + 1..p + n(p) - 1 : at[q] = "none"

\* The child of a pending call has been forked for the latter half and not been
\* reaped; what it has written is of its half.
Families ==
    \A p \in Proc : \A i \in Pending(p) :
        LET c == ChildOf(p, i) IN
        /\ stack[p][i].n > 1
        /\ parent[c] = p
        /\ at[c] \notin {"none", "reaped"}
        /\ stack[c] # <<>> => stack[c][Len(stack[c])].n = Share(p, i)
        /\ Sent(c) <= Share(p, i)
        /\ at[c] \in {"exit0", "exit1"} => Sent(c) = Share(p, i)
        /\ i > 1 => got[c] = 0
        /\ i > 1 \/ at[p] = "read" => p \in rfd[c] /\ got[c] < Share(p, i)
        /\ i = 1 /\ at[p] = "wait" =>
               got[c] = Share(p, i) \/ (stack[p][i].err /\ ~Alive(c) /\ kills > 0)

\* A process that has not been reaped is the child of a pending call, unless waitpid
\* failed for it, when it had nothing more to send, or processes were killed.
Owned ==
    \A c \in Proc \ {0} :
        at[c] \notin {"none", "reaped"} =>
            \/ \E i \in Pending(parent[c]) : c = ChildOf(parent[c], i)
            \/ Forsaken(c)
            \/ kills > 0 /\ parent[c] # 0

\* Nothing is written before a process has sorted its part.
Pipes ==
    \A c \in Proc :
        /\ at[c] \in {"none", "call", "read", "wait"} => pipe[c] = <<>> /\ got[c] = 0
        /\ c + Sent(c) <= N
        /\ at[c] = "write" => Sent(c) <= n(c)
        /\ Alive(c) /\ c # 0 => c \in wfd[c]

\* Where an error comes from.
Causes ==
    /\ \A p \in Proc : at[p] = "killed" => kills > 0
    /\ \/ noFork \/ abandoned # {} \/ kills > 0
       \/ \A p \in Proc : at[p] # "exit1" /\ \A i \in Calls(p) : ~stack[p][i].err

SortedOn(S, a) == \A i, j \in S : i <= j => a[i] <= a[j]

\* The first k elements of p's part, with an error (e) or without.
Done(p, k, e) ==
    LET S == p..p + k - 1 IN
    /\ kills = 0 \/ ~e => SameOn(S, mem[p], input)
    /\ ~e => SortedOn(S, mem[p])

\* What is in the copies of the array and in the pipes.
Contents ==
    /\ \A p \in Proc :
           /\ at[p] = "call" => \A q \in p..p + n(p) - 1 : mem[p][q] = input[q]
           /\ at[p] \in {"read", "wait"} =>
                  /\ Done(p, Left(p), stack[p][1].err)
                  /\ \A q \in Child(p)..Child(p) + got[Child(p)] - 1 :
                         mem[p][q] = mem[Child(p)][q]
           /\ at[p] = "write" => Done(p, n(p), stack[p][1].err)
           /\ \A k \in 1..Len(pipe[p]) : pipe[p][k] = mem[p][p + got[p] + k - 1]
           /\ \A i \in Pending(p) :
                  LET c == ChildOf(p, i) IN
                  at[c] \in {"exit0", "exit1"} => Done(c, Share(p, i), at[c] = "exit1")
    /\ at[0] \in {"exit0", "exit1"} => Done(0, N, at[0] = "exit1")

IInv == TypeOK /\ Stacks /\ Fresh /\ Families /\ Owned /\ Pipes /\ Causes /\ Contents

-----------------------------------------------------------------------------

\* fsort returns, and every process ends: none waits for ever in a pipe or for a
\* child, although pipes are small, processes are killed, and others hold ends of
\* pipes that are not theirs.
AllEnd == <>[](\A p \in Proc : ~Alive(p)) /\ <>(at[0] \in {"exit0", "exit1"})

=============================================================================
