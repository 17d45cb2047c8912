----------------------------- MODULE BatchProofs -----------------------------
(***************************************************************************)
(* batch keeps its table of commands in step with the kernel: IInv is       *)
(* inductive, and what batch promises follows, for all lists of commands    *)
(* and all limits.                                                          *)
(***************************************************************************)
EXTENDS Batch, FiniteSetTheorems, TLAPS

USE BatchAssumption

-----------------------------------------------------------------------------
(* The number of commands that are open.                                   *)

\* Sets of commands are finite.
LEMMA SetsOfCommands ==
    ASSUME NEW S, S \in SUBSET Cmd
    PROVE  IsFiniteSet(S) /\ Cardinality(S) \in 0..NumCommands
  <1>1. IsFiniteSet(Cmd) /\ Cardinality(Cmd) = NumCommands
    BY FS_Interval DEF Cmd
  <1>2. IsFiniteSet(S) /\ Cardinality(S) <= Cardinality(Cmd)
    BY <1>1, FS_Subset
  <1>3. Cardinality(S) \in Nat
    BY <1>2, FS_CardinalityType
  <1> QED
    BY <1>1, <1>2, <1>3

\* Nothing is started and nothing reaped.
LEMMA OpenKept ==
    ASSUME UNCHANGED next,
           \A c \in 1..next - 1 : child'[c] = "reaped" <=> child[c] = "reaped"
    PROVE  Open' = Open
  BY DEF Open

\* The next command is started, or its fork fails.
LEMMA OpenGrows ==
    ASSUME next \in Cmd, next' = next + 1, UNCHANGED child, child[next] # "reaped"
    PROVE  Cardinality(Open') = Cardinality(Open) + 1
  <1>1. Open' = Open \cup {next}
    BY DEF Open, Cmd
  <1>2. next \notin Open /\ Open \in SUBSET Cmd
    BY DEF Open, Cmd
  <1>3. IsFiniteSet(Open)
    BY <1>2, SetsOfCommands
  <1> QED
    BY <1>1, <1>2, <1>3, FS_AddElement

\* A command is reaped.
LEMMA OpenShrinks ==
    ASSUME TypeOK, NEW c \in Open, child' = [child EXCEPT ![c] = "reaped"], UNCHANGED next
    PROVE  Cardinality(Open') = Cardinality(Open) - 1
  <1>1. Open' = Open \ {c}
    BY DEF Open, TypeOK, Cmd
  <1>2. Open \in SUBSET Cmd
    BY DEF Open, TypeOK, Cmd
  <1>3. IsFiniteSet(Open)
    BY <1>2, SetsOfCommands
  <1> QED
    BY <1>1, <1>3, FS_RemoveElement

-----------------------------------------------------------------------------

\* It holds when main reaches its loop.
LEMMA InitKeeps == Init => IInv
  <1> SUFFICES ASSUME Init PROVE IInv
    OBVIOUS
  <1>1. TypeOK
    <2>1. next \in 1..NumCommands + 1 /\ active \in 0..NumCommands
      BY DEF Init
    <2>2. cpid \in [Cmd -> Pid \cup {-1}] /\ announced \in [Cmd -> Nat]
      BY DEF Init
    <2>3. /\ child \in [Cmd -> {"none", "forked", "running", "zombie", "reaped"}]
          /\ status \in [Cmd -> {"none", "ok", "fail", "killed"}]
      BY DEF Init
    <2>4. pid \in [Cmd -> Pid \cup {0}] /\ group \in [Cmd -> Pid \cup {0}]
      BY DEF Init
    <2> QED
      BY <2>1, <2>2, <2>3, <2>4 DEF Init, TypeOK
  <1>2. Open = {} /\ Unreaped = {}
    BY DEF Init, Open, Unreaped, Alive, Cmd
  <1>3. InOrder
    BY DEF Init, InOrder
  <1>4. Counted
    BY <1>2, FS_EmptySet DEF Init, Counted
  <1>5. Ids
    BY <1>2 DEF Init, Ids
  <1>6. Reason /\ Stopping
    BY DEF Init, Reason, Stopping
  <1> QED
    BY <1>1, <1>3, <1>4, <1>5, <1>6 DEF IInv

-----------------------------------------------------------------------------
(* The steps, one part of the invariant at a time.                         *)

\* A step of the surroundings: the table and the counters stay.
Surroundings == Signal \/ \E c \in Cmd : Exec(c) \/ ExecFails(c) \/ Finish(c)

\* What the children and a signal leave alone, and what they may do.
LEMMA Surrounded ==
    ASSUME TypeOK, Surroundings
    PROVE  /\ UNCHANGED <<kind, e_flag, error, end, next, active, pgid, cpid, announced, pid, group>>
           /\ pc' \in {pc, "top"} /\ (pc' # pc => pc = "blocked")
           /\ signal_recieved => signal_recieved'
           /\ \A c \in Cmd :
                \/ child'[c] = child[c] /\ status'[c] = status[c]
                \/ child[c] = "forked" /\ child'[c] = "running" /\ status'[c] = status[c]
                \/ Alive(c) /\ child'[c] = "zombie" /\ status'[c] # "none"
           /\ TypeOK'
  <1> USE DEF TypeOK, args, program, kernel, Alive
  <1>1. CASE Signal
    BY <1>1 DEF Signal
  <1>2. ASSUME NEW c \in Cmd, Exec(c)
        PROVE  /\ UNCHANGED <<kind, e_flag, error, end, next, active, pgid, cpid, announced, pid, group>>
               /\ pc' = pc /\ signal_recieved' = signal_recieved
               /\ child' = [child EXCEPT ![c] = "running"] /\ child[c] = "forked"
               /\ UNCHANGED status
    BY <1>2 DEF Exec
  <1>3. ASSUME NEW c \in Cmd, ExecFails(c) \/ Finish(c)
        PROVE  /\ UNCHANGED <<kind, e_flag, error, end, next, active, pgid, cpid, announced, pid, group>>
               /\ pc' = pc /\ signal_recieved' = signal_recieved
               /\ child' = [child EXCEPT ![c] = "zombie"] /\ child[c] \in {"forked", "running"}
               /\ \E s \in {"ok", "fail"} : status' = [status EXCEPT ![c] = s]
    BY <1>3 DEF ExecFails, Finish
  <1>4. CASE \E c \in Cmd : Exec(c)
    BY <1>2, <1>4
  <1>5. CASE \E c \in Cmd : ExecFails(c) \/ Finish(c)
    BY <1>3, <1>5
  <1> QED
    BY <1>1, <1>4, <1>5 DEF Surroundings

\* What the children and the signal handler do between two calls of batch.
LEMMA SurroundingsKeep == IInv /\ Surroundings => IInv'
  <1> SUFFICES ASSUME IInv, Surroundings PROVE IInv'
    OBVIOUS
  <1>1. TypeOK
    BY DEF IInv
  <1>2. /\ UNCHANGED <<kind, e_flag, error, end, next, active, pgid, cpid, announced, pid, group>>
        /\ pc' \in {pc, "top"} /\ (pc' # pc => pc = "blocked")
        /\ signal_recieved => signal_recieved'
        /\ \A c \in Cmd :
             \/ child'[c] = child[c] /\ status'[c] = status[c]
             \/ child[c] = "forked" /\ child'[c] = "running" /\ status'[c] = status[c]
             \/ Alive(c) /\ child'[c] = "zombie" /\ status'[c] # "none"
        /\ TypeOK'
    BY <1>1, Surrounded
  <1>3. Unreaped' = Unreaped
    BY <1>1, <1>2 DEF TypeOK, Unreaped, Alive
  <1>4. Open' = Open
    <2>1. \A c \in 1..next - 1 : c \in Cmd
      BY <1>1 DEF TypeOK, Cmd
    <2>2. \A c \in Cmd : child'[c] = "reaped" <=> child[c] = "reaped"
      BY <1>2 DEF Alive
    <2> QED
      BY <1>2, <2>1, <2>2, OpenKept
  <1>5. InOrder'
    BY <1>2, <1>3 DEF IInv, InOrder, Alive
  <1>6. Counted'
    BY <1>2, <1>4 DEF IInv, Counted
  <1>7. Ids'
    BY <1>2, <1>3 DEF IInv, Ids, Alive
  <1>8. Reason'
    <2>1. ASSUME NEW c \in Cmd
          PROVE  /\ child'[c] \in {"zombie", "reaped"} <=> status'[c] # "none"
                 /\ child'[c] = "reaped" /\ status'[c] # "ok" => error' /\ (e_flag' => end')
                 /\ status[c] \in {"fail", "killed"} => status'[c] \in {"fail", "killed"}
      <3>1. child[c] \in {"forked", "running"} => status[c] = "none"
        BY DEF IInv, Reason
      <3> QED
        BY <1>2, <3>1 DEF IInv, Reason, Alive
    <2>2. \A c \in 1..next - 1 : c \in Cmd
      BY <1>1 DEF TypeOK, Cmd
    <2>3. error => \/ signal_recieved
                   \/ \E c \in Cmd : status[c] \in {"fail", "killed"}
                   \/ \E c \in 1..next - 1 : child[c] = "none"
      BY DEF IInv, Reason
    <2>4. error' => \/ signal_recieved'
                    \/ \E c \in Cmd : status'[c] \in {"fail", "killed"}
                    \/ \E c \in 1..next' - 1 : child'[c] = "none"
      BY <1>2, <2>1, <2>2, <2>3 DEF Alive
    <2>5. end' => error'
      BY <1>2 DEF IInv, Reason
    <2> QED
      BY <2>1, <2>4, <2>5 DEF Reason
  <1>9. Stopping'
    BY <1>2, <1>3 DEF IInv, Stopping, MaySpawn
  <1> QED
    BY <1>2, <1>5, <1>6, <1>7, <1>8, <1>9 DEF IInv

\* Going round the loop without touching a command.
LEMMA TurnKeeps == IInv /\ (Top \/ SpawnDone \/ Block \/ NoChild) => IInv'
  <1> SUFFICES ASSUME IInv, Top \/ SpawnDone \/ Block \/ NoChild PROVE IInv'
    OBVIOUS
  <1> USE DEF args, kernel
  <1>1. TypeOK
    BY DEF IInv
  <1>2. /\ UNCHANGED <<kind, e_flag, next, active, pgid, cpid, announced, signal_recieved>>
        /\ UNCHANGED <<child, pid, group, status>>
        /\ pc # "join" /\ pc' # "join"
    BY DEF Top, SpawnDone, Block, NoChild
  <1>3. TypeOK'
    BY <1>1, <1>2 DEF TypeOK, Top, SpawnDone, Block, NoChild
  <1>4. Unreaped' = Unreaped /\ Open' = Open
    BY <1>2 DEF Unreaped, Alive, Open
  <1>5. InOrder'
    BY <1>2, <1>4 DEF IInv, InOrder
  <1>6. Counted'
    BY <1>2, <1>4 DEF IInv, Counted, Top, SpawnDone, Block, NoChild
  <1>7. Ids'
    BY <1>2, <1>4 DEF IInv, Ids
  <1>8. Reason'
    <2>1. CASE Top
      <3>1. (error' <=> error \/ signal_recieved) /\ (end' <=> end \/ signal_recieved)
        BY <1>1, <2>1 DEF Top, TypeOK
      <3> QED
        BY <1>2, <3>1 DEF IInv, Reason
    <2>2. CASE SpawnDone \/ Block
      BY <1>2, <2>2 DEF IInv, Reason, SpawnDone, Block
    <2>3. CASE NoChild
      <3>1. PICK c \in Open : TRUE
        <4>1. Cardinality(Open) # 0
          BY <2>3 DEF IInv, Counted, NoChild
        <4> QED
          BY <4>1, FS_EmptySet
      <3>2. c \in 1..next - 1 /\ c \in Cmd /\ child[c] = "none"
        <4>1. c \in 1..next - 1 /\ child[c] # "reaped"
          BY DEF Open
        <4>2. c \in Cmd
          BY <1>1, <4>1 DEF TypeOK, Cmd
        <4>3. c \notin Unreaped
          BY <2>3 DEF NoChild
        <4> QED
          BY <1>1, <4>1, <4>2, <4>3 DEF TypeOK, Unreaped, Alive
      <3> QED
        BY <1>2, <2>3, <3>2 DEF IInv, Reason, NoChild
    <2> QED
      BY <2>1, <2>2, <2>3
  <1>9. Stopping'
    BY <1>2, <1>4 DEF IInv, Stopping, Top, SpawnDone, Block, NoChild, MaySpawn
  <1> QED
    BY <1>3, <1>5, <1>6, <1>7, <1>8, <1>9 DEF IInv

\* fork succeeds: the parent goes on to setpgid, or to wait.
LEMMA ForkKeeps == IInv /\ Fork => IInv'
  <1> SUFFICES ASSUME IInv, Fork PROVE IInv'
    OBVIOUS
  <1>1. TypeOK /\ next \in Cmd /\ child[next] = "none"
    BY DEF IInv, TypeOK, Fork, MaySpawn, InOrder, Cmd
  <1>2. PICK p \in Pid : /\ \A c \in Unreaped : pid[c] # p /\ group[c] # p
                         /\ child' = [child EXCEPT ![next] = "forked"]
                         /\ pid' = [pid EXCEPT ![next] = p]
    BY DEF Fork
  <1>3. /\ UNCHANGED <<kind, e_flag, error, end, next, active, pgid, cpid, announced,
                       signal_recieved, group, status>>
        /\ pc = "spawn" /\ pc' = "join" /\ MaySpawn
    BY DEF Fork, args
  <1>4. TypeOK'
    BY <1>1, <1>2, <1>3 DEF TypeOK
  <1>5. Unreaped' = Unreaped \cup {next}
    BY <1>1, <1>2 DEF Unreaped, Alive, TypeOK
  <1>6. Open' = Open
    BY <1>1, <1>2, <1>3, OpenKept DEF TypeOK, Cmd
  <1>7. InOrder'
    BY <1>1, <1>2, <1>3, <1>5 DEF IInv, InOrder, TypeOK
  <1>8. Counted'
    BY <1>3, <1>6 DEF IInv, Counted, MaySpawn
  <1>9. Ids'
    <2>1. p # 0 /\ \A c \in Cmd : c # next => pid'[c] = pid[c] /\ child'[c] = child[c]
      BY <1>1, <1>2 DEF TypeOK
    <2>2. pid'[next] = p /\ child'[next] = "forked" /\ next \notin Unreaped
      BY <1>1, <1>2 DEF TypeOK, Unreaped, Alive
    <2>3. \A c \in Cmd : child'[c] # "none" => pid'[c] # 0
      BY <2>1, <2>2 DEF IInv, Ids
    <2>4. \A c, d \in Unreaped' : pid'[c] = pid'[d] => c = d
      BY <1>2, <1>5, <2>1, <2>2 DEF IInv, Ids, Unreaped
    <2>5. \A c \in Cmd : cpid'[c] = IF c < next' /\ c \in Unreaped' THEN pid'[c] ELSE -1
      BY <1>1, <1>3, <1>5, <2>1, <2>2 DEF IInv, Ids, Cmd
    <2>6. \A c \in Cmd : announced'[c] = IF child'[c] = "reaped" THEN 1 ELSE 0
      BY <1>1, <1>3, <2>1, <2>2 DEF IInv, Ids
    <2> QED
      BY <2>3, <2>4, <2>5, <2>6 DEF Ids
  <1>10. Reason'
    <2>1. \A c \in 1..next - 1 : c \in Cmd /\ child'[c] = child[c]
      BY <1>1, <1>2 DEF TypeOK, Cmd
    <2>2. child'[next] = "forked" /\ \A c \in Cmd : c # next => child'[c] = child[c]
      BY <1>1, <1>2 DEF TypeOK
    <2> QED
      BY <1>1, <1>3, <2>1, <2>2 DEF IInv, Reason
  <1>11. Stopping'
    BY <1>3 DEF Stopping, MaySpawn
  <1> QED
    BY <1>4, <1>7, <1>8, <1>9, <1>10, <1>11 DEF IInv

\* fork fails.
LEMMA ForkFailedKeeps == IInv /\ ForkFailed => IInv'
  <1> SUFFICES ASSUME IInv, ForkFailed PROVE IInv'
    OBVIOUS
  <1>1. TypeOK /\ next \in Cmd /\ child[next] = "none"
    BY DEF IInv, TypeOK, ForkFailed, MaySpawn, InOrder, Cmd
  <1>2. /\ UNCHANGED <<kind, e_flag, pc, error, end, pgid, cpid, announced, signal_recieved>>
        /\ UNCHANGED <<child, pid, group, status>>
        /\ active' = active + 1 /\ next' = next + 1 /\ pc = "spawn" /\ MaySpawn
    BY DEF ForkFailed, args, kernel
  <1>3. next \in Nat /\ next' \in 1..NumCommands + 1
    BY <1>1, <1>2 DEF Cmd
  <1>4. Unreaped' = Unreaped
    BY <1>2 DEF Unreaped, Alive
  <1>5. active' = Cardinality(Open')
    BY <1>1, <1>2, OpenGrows DEF IInv, Counted
  <1>6. active' \in 0..NumCommands
    <2>1. Open' \in SUBSET Cmd
      BY <1>3 DEF Open, Cmd
    <2> QED
      BY <1>5, <2>1, SetsOfCommands
  <1>7. TypeOK'
    BY <1>1, <1>2, <1>3, <1>6 DEF TypeOK
  <1>8. InOrder'
    BY <1>1, <1>2, <1>3 DEF IInv, InOrder, Cmd
  <1>9. Counted'
    BY <1>1, <1>2, <1>5 DEF TypeOK, Counted, MaySpawn
  <1>10. Ids'
    <2>1. \A c \in Cmd : c \in Unreaped => c # next
      BY <1>1 DEF Unreaped, Alive
    <2>2. \A c \in Cmd : c \in Unreaped => (c < next + 1 <=> c < next)
      BY <1>3, <2>1 DEF Cmd
    <2> QED
      BY <1>2, <1>4, <2>2 DEF IInv, Ids
  <1>11. Reason'
    <2>1. \A c \in 1..next - 1 : c \in 1..next' - 1
      BY <1>2, <1>3
    <2> QED
      BY <1>2, <2>1 DEF IInv, Reason
  <1>12. Stopping'
    BY <1>2 DEF Stopping
  <1> QED
    BY <1>7, <1>8, <1>9, <1>10, <1>11, <1>12 DEF IInv

\* The parent's setpgid, which may fail.
LEMMA JoinKeeps == IInv /\ Join => IInv'
  <1> SUFFICES ASSUME IInv, Join PROVE IInv'
    OBVIOUS
  <1>1. TypeOK /\ pc = "join" /\ next \in Unreaped /\ next \in Cmd /\ pid[next] \in Pid
    BY DEF IInv, TypeOK, InOrder, Ids, Join, Unreaped, Alive
  <1>2. /\ UNCHANGED <<kind, e_flag, error, end, announced, signal_recieved, child, pid, status>>
        /\ pgid' \in Pid
        /\ cpid' = [cpid EXCEPT ![next] = pid[next]]
        /\ active' = active + 1 /\ next' = next + 1 /\ pc' = "spawn"
    BY <1>1 DEF Join, args, TypeOK
  <1>3. group' \in [Cmd -> Pid \cup {0}]
    BY <1>1, <1>2 DEF Join, TypeOK
  <1>4. next \in Nat /\ next' \in 1..NumCommands + 1
    BY <1>1, <1>2 DEF Cmd
  <1>5. Unreaped' = Unreaped
    BY <1>2 DEF Unreaped, Alive
  <1>6. active' = Cardinality(Open')
    <2>1. child[next] # "reaped"
      BY <1>1 DEF Unreaped, Alive
    <2> QED
      BY <1>1, <1>2, <2>1, OpenGrows DEF IInv, Counted
  <1>7. active' \in 0..NumCommands
    <2>1. Open' \in SUBSET Cmd
      BY <1>4 DEF Open, Cmd
    <2> QED
      BY <1>6, <2>1, SetsOfCommands
  <1>8. TypeOK'
    BY <1>1, <1>2, <1>3, <1>4, <1>7 DEF TypeOK
  <1>9. InOrder'
    <2>1. \A c \in Cmd : c < next \/ c = next => c < next + 1
      BY <1>4 DEF Cmd
    <2> QED
      BY <1>2, <2>1 DEF IInv, InOrder
  <1>10. Counted'
    BY <1>1, <1>2, <1>6 DEF IInv, TypeOK, Counted
  <1>11. Ids'
    <2>1. \A c \in Cmd : c # next => (c < next + 1 <=> c < next)
      BY <1>4 DEF Cmd
    <2>2. \A c \in Cmd : cpid'[c] = IF c < next' /\ c \in Unreaped' THEN pid'[c] ELSE -1
      BY <1>1, <1>2, <1>4, <1>5, <2>1 DEF IInv, Ids, TypeOK
    <2> QED
      BY <1>2, <1>5, <2>2 DEF IInv, Ids
  <1>12. Reason'
    <2>1. \A c \in 1..next - 1 : c \in 1..next' - 1
      BY <1>2, <1>4
    <2> QED
      BY <1>2, <2>1 DEF IInv, Reason
  <1>13. Stopping'
    BY <1>2 DEF Stopping
  <1> QED
    BY <1>8, <1>9, <1>10, <1>11, <1>12, <1>13 DEF IInv

\* killpg under end, and the test of active behind it.
LEMMA KillKeeps == IInv /\ Kill => IInv'
  <1> SUFFICES ASSUME IInv, Kill PROVE IInv'
    OBVIOUS
  <1>1. TypeOK /\ pc = "kill" /\ ~MaySpawn
    BY DEF IInv, Kill, Stopping
  <1>2. /\ UNCHANGED <<kind, e_flag, error, end, next, active, pgid, cpid, announced,
                       signal_recieved, pid, group>>
        /\ pc' = IF active = 0 THEN "done" ELSE "wait"
    BY DEF Kill, args
  <1>3. /\ child' \in [Cmd -> {"none", "forked", "running", "zombie", "reaped"}]
        /\ status' \in [Cmd -> {"none", "ok", "fail", "killed"}]
        /\ \A c \in Cmd : \/ child'[c] = child[c] /\ status'[c] = status[c]
                          \/ Alive(c) /\ child'[c] = "zombie" /\ status'[c] = "killed"
    BY <1>1 DEF Kill, Killpg, TypeOK
  <1>4. TypeOK'
    BY <1>1, <1>2, <1>3 DEF TypeOK
  <1>5. Unreaped' = Unreaped
    BY <1>3 DEF Unreaped, Alive
  <1>6. \A c \in 1..next - 1 : c \in Cmd
    BY <1>1 DEF TypeOK, Cmd
  <1>7. Open' = Open
    <2>1. \A c \in Cmd : child'[c] = "reaped" <=> child[c] = "reaped"
      BY <1>3 DEF Alive
    <2> QED
      BY <1>2, <1>6, <2>1, OpenKept
  <1>8. InOrder'
    BY <1>1, <1>2, <1>3 DEF IInv, InOrder, Alive
  <1>9. Counted'
    BY <1>1, <1>2, <1>7 DEF IInv, TypeOK, Counted
  <1>10. Ids'
    BY <1>2, <1>3, <1>5 DEF IInv, Ids, Alive
  <1>11. Reason'
    <2>1. ASSUME NEW c \in Cmd
          PROVE  /\ child'[c] \in {"zombie", "reaped"} <=> status'[c] # "none"
                 /\ child'[c] = "reaped" /\ status'[c] # "ok" => error' /\ (e_flag' => end')
                 /\ status[c] \in {"fail", "killed"} => status'[c] \in {"fail", "killed"}
                 /\ child[c] = "none" => child'[c] = "none"
      BY <1>2, <1>3 DEF IInv, Reason, Alive
    <2>2. error => \/ signal_recieved
                   \/ \E c \in Cmd : status[c] \in {"fail", "killed"}
                   \/ \E c \in 1..next - 1 : child[c] = "none"
      BY DEF IInv, Reason
    <2>3. error' => \/ signal_recieved'
                    \/ \E c \in Cmd : status'[c] \in {"fail", "killed"}
                    \/ \E c \in 1..next' - 1 : child'[c] = "none"
      BY <1>2, <1>6, <2>1, <2>2
    <2>4. end' => error'
      BY <1>2 DEF IInv, Reason
    <2> QED
      BY <2>1, <2>3, <2>4 DEF Reason
  <1>12. Stopping'
    <2>1. active = 0 => Unreaped = {}
      <3>1. active = 0 => Open = {}
        <4>1. Open \in SUBSET Cmd
          BY <1>6 DEF Open
        <4> QED
          BY <4>1, SetsOfCommands, FS_EmptySet DEF IInv, Counted
      <3>2. ASSUME NEW c \in Unreaped PROVE c \in Open
        <4>1. c \in Cmd /\ child[c] # "none" /\ child[c] # "reaped"
          BY DEF Unreaped, Alive
        <4>2. c < next
          BY <1>1, <4>1 DEF IInv, InOrder
        <4> QED
          BY <1>1, <4>1, <4>2 DEF Open, Cmd, TypeOK
      <3> QED
        BY <3>1, <3>2
    <2> QED
      BY <1>1, <1>2, <1>5, <2>1 DEF Stopping, MaySpawn
  <1> QED
    BY <1>4, <1>8, <1>9, <1>10, <1>11, <1>12 DEF IInv

\* The table has one entry for a child that has ended, and it is the child's.
LEMMA FindsProcess ==
    ASSUME TypeOK, InOrder, Ids, NEW c \in Unreaped, pc # "join"
    PROVE  FindProcess(pid[c]) = {c}
  <1>1. c \in Cmd /\ child[c] # "none"
    BY DEF Unreaped, Alive
  <1>2. c < next /\ cpid[c] = pid[c] /\ pid[c] \in Pid
    BY <1>1 DEF InOrder, Ids, TypeOK
  <1>3. \A d \in Cmd : cpid[d] = pid[c] => d = c
    BY <1>1, <1>2 DEF Ids
  <1>4. \A d \in 1..c - 1 : d \in Cmd /\ d # c
    BY <1>1 DEF Cmd
  <1> QED
    BY <1>1, <1>2, <1>3, <1>4 DEF FindProcess

\* waitpid returns a child, and what is made of its status.
LEMMA ReapKeeps == ASSUME IInv, NEW c \in Cmd, Reap(c) PROVE IInv'
  <1>1. TypeOK /\ pc \in {"wait", "blocked"} /\ child[c] = "zombie" /\ c \in Unreaped
    BY DEF IInv, Reap, Unreaped
  <1>2. c < next /\ c \in Open
    BY <1>1 DEF IInv, InOrder, Open, TypeOK, Cmd
  <1>3. FindProcess(pid[c]) = {c}
    BY <1>1, FindsProcess DEF IInv
  <1>4. /\ UNCHANGED <<kind, e_flag, next, pgid, signal_recieved, pid, group, status>>
        /\ child' = [child EXCEPT ![c] = "reaped"]
        /\ announced' = [d \in Cmd |-> IF d = c THEN announced[d] + 1 ELSE announced[d]]
        /\ cpid' = [d \in Cmd |-> IF d = c THEN -1 ELSE cpid[d]]
        /\ active' = active - 1 /\ pc' = "top"
    BY <1>3 DEF Reap, args
  <1>5. /\ error' <=> error \/ status[c] # "ok"
        /\ end' <=> end \/ (e_flag /\ status[c] # "ok")
        /\ error' \in BOOLEAN /\ end' \in BOOLEAN
    BY <1>1 DEF Reap, Succeeded, TypeOK
  <1>6. active' = Cardinality(Open')
    BY <1>1, <1>2, <1>4, OpenShrinks DEF IInv, Counted
  <1>7. active' \in 0..NumCommands
    <2>1. Open' \in SUBSET Cmd
      BY <1>1, <1>4 DEF Open, Cmd, TypeOK
    <2> QED
      BY <1>6, <2>1, SetsOfCommands
  <1>8. TypeOK'
    BY <1>1, <1>4, <1>5, <1>7 DEF TypeOK
  <1>9. Unreaped' = Unreaped \ {c}
    BY <1>1, <1>4 DEF Unreaped, Alive, TypeOK
  <1>10. \A d \in Cmd : child'[d] = IF d = c THEN "reaped" ELSE child[d]
    BY <1>1, <1>4 DEF TypeOK
  <1>11. InOrder'
    BY <1>1, <1>2, <1>4, <1>10 DEF IInv, InOrder
  <1>12. Counted'
    BY <1>1, <1>4, <1>6 DEF IInv, Counted, TypeOK
  <1>13. Ids'
    <2>1. announced[c] = 0
      BY <1>1 DEF IInv, Ids
    <2>2. \A d \in Cmd : announced'[d] = IF child'[d] = "reaped" THEN 1 ELSE 0
      BY <1>4, <1>10, <2>1 DEF IInv, Ids
    <2>3. \A d \in Cmd : cpid'[d] = IF d < next' /\ d \in Unreaped' THEN pid'[d] ELSE -1
      BY <1>4, <1>9 DEF IInv, Ids
    <2>4. \A d \in Cmd : child'[d] # "none" => pid'[d] # 0
      BY <1>1, <1>4, <1>10 DEF IInv, Ids
    <2> QED
      BY <1>4, <1>9, <2>2, <2>3, <2>4 DEF IInv, Ids
  <1>14. Reason'
    <2>1. status[c] # "none"
      BY <1>1 DEF IInv, Reason
    <2>2. \A d \in Cmd : child'[d] \in {"zombie", "reaped"} <=> status'[d] # "none"
      BY <1>1, <1>4, <1>10 DEF IInv, Reason
    <2>3. \A d \in Cmd : child'[d] = "reaped" /\ status'[d] # "ok" => error' /\ (e_flag' => end')
      BY <1>4, <1>5, <1>10 DEF IInv, Reason
    <2>4. error => \/ signal_recieved
                   \/ \E d \in Cmd : status[d] \in {"fail", "killed"}
                   \/ \E d \in 1..next - 1 : child[d] = "none"
      BY DEF IInv, Reason
    <2>5. \A d \in 1..next - 1 : d \in Cmd /\ (child[d] = "none" => child'[d] = "none")
      BY <1>1, <1>10 DEF TypeOK, Cmd
    <2>6. status[c] # "ok" => status[c] \in {"fail", "killed"}
      BY <1>1, <2>1 DEF TypeOK
    <2>7. error' => \/ signal_recieved'
                    \/ \E d \in Cmd : status'[d] \in {"fail", "killed"}
                    \/ \E d \in 1..next' - 1 : child'[d] = "none"
      BY <1>4, <1>5, <2>4, <2>5, <2>6
    <2>8. end' => error'
      BY <1>5 DEF IInv, Reason
    <2> QED
      BY <2>2, <2>3, <2>7, <2>8 DEF Reason
  <1>15. Stopping'
    BY <1>4 DEF Stopping
  <1> QED
    BY <1>8, <1>11, <1>12, <1>13, <1>14, <1>15 DEF IInv

\* Every step keeps it.
LEMMA StepKeeps == IInv /\ [Next]_vars => IInv'
  <1> SUFFICES ASSUME IInv, [Next]_vars PROVE IInv'
    OBVIOUS
  <1>1. CASE Surroundings
    BY <1>1, SurroundingsKeep
  <1>2. CASE Top \/ SpawnDone \/ Block \/ NoChild
    BY <1>2, TurnKeeps
  <1>3. CASE Fork
    BY <1>3, ForkKeeps
  <1>4. CASE ForkFailed
    BY <1>4, ForkFailedKeeps
  <1>5. CASE Join
    BY <1>5, JoinKeeps
  <1>6. CASE Kill
    BY <1>6, KillKeeps
  <1>7. CASE \E c \in Cmd : Reap(c)
    BY <1>7, ReapKeeps
  <1>8. CASE UNCHANGED vars
    BY <1>8 DEF vars, args, program, kernel, IInv, TypeOK, InOrder, Counted, Open, Ids, Reason,
                Stopping, MaySpawn, Unreaped, Alive
  <1> QED
    BY <1>1, <1>2, <1>3, <1>4, <1>5, <1>6, <1>7, <1>8 DEF Next, Main, Surroundings

-----------------------------------------------------------------------------

\* The table of commands agrees with the kernel's processes (batch.c 46-114).
THEOREM Invariant == Spec => []IInv
  <1> QED
    BY InitKeeps, StepKeeps, PTL DEF Spec

\* At most N children at a time and none at the end, although a fork that fails is
\* counted (batch.c 51-71).
THEOREM KeepsToSlots == Spec => []Slots
  <1>1. IInv => Slots
    <2> SUFFICES ASSUME IInv PROVE Slots
      OBVIOUS
    <2>1. TypeOK
      BY DEF IInv
    <2>2. Open \in SUBSET Cmd
      BY <2>1 DEF Open, Cmd, TypeOK
    <2>3. IsFiniteSet(Open) /\ Cardinality(Open) \in Nat
      BY <2>2, SetsOfCommands
    <2>4. Cardinality(Unreaped) <= N
      <3>1. CASE pc = "join"
        <4>1. Unreaped \in SUBSET (Open \cup {next})
          BY <2>1 DEF IInv, InOrder, Unreaped, Alive, Open, Cmd, TypeOK
        <4>2. /\ IsFiniteSet(Open \cup {next})
              /\ Cardinality(Open \cup {next}) =
                    IF next \in Open THEN Cardinality(Open) ELSE Cardinality(Open) + 1
          BY <2>3, FS_AddElement
        <4>3. /\ Cardinality(Unreaped) <= Cardinality(Open \cup {next})
              /\ Cardinality(Unreaped) \in Nat
          BY <4>1, <4>2, FS_Subset, FS_CardinalityType
        <4> QED
          BY <2>1, <2>3, <3>1, <4>2, <4>3 DEF IInv, Counted, TypeOK
      <3>2. CASE pc # "join"
        <4>1. Unreaped \in SUBSET Open
          BY <2>1, <3>2 DEF IInv, InOrder, Unreaped, Alive, Open, Cmd, TypeOK
        <4>2. /\ Cardinality(Unreaped) <= Cardinality(Open)
              /\ Cardinality(Unreaped) \in Nat
          BY <2>3, <4>1, FS_Subset, FS_CardinalityType
        <4> QED
          BY <2>1, <2>3, <4>2 DEF IInv, Counted, TypeOK
      <3> QED
        BY <3>1, <3>2
    <2> QED
      BY <2>4 DEF IInv, Stopping, Slots
  <1> QED
    BY <1>1, Invariant, PTL

\* A child is announced once, when it has been reaped and under its own command,
\* although process ids are used again (batch.c 96-104).
THEOREM AnnouncedOnce == Spec => []Announced
  <1>1. IInv => Announced
    BY DEF IInv, Ids, Announced
  <1> QED
    BY <1>1, Invariant, PTL

\* Exit status 0 means that all commands ran and succeeded, and any other has a
\* cause (batch.c 46-49, 88-114).
THEOREM StatusIsTrue == Spec => []ExitStatus
  <1>1. IInv => ExitStatus
    <2> SUFFICES ASSUME IInv, pc = "done"
                 PROVE  \/ ~error /\ \A c \in Cmd : child[c] = "reaped" /\ status[c] = "ok"
                        \/ /\ error
                           /\ \/ signal_recieved
                              \/ \E c \in Cmd : status[c] \in {"fail", "killed"}
                              \/ \E c \in 1..next - 1 : child[c] = "none"
      BY DEF ExitStatus
    <2>1. CASE error
      BY <2>1 DEF IInv, Reason
    <2>2. CASE ~error
      <3>1. TypeOK /\ active = 0 /\ ~MaySpawn /\ ~end
        BY <2>2 DEF IInv, Stopping, Reason
      <3>2. next > NumCommands
        BY <3>1 DEF MaySpawn, TypeOK
      <3>3. Open = {}
        <4>1. Open \in SUBSET Cmd
          BY <3>1 DEF Open, Cmd, TypeOK
        <4> QED
          BY <3>1, <4>1, SetsOfCommands, FS_EmptySet DEF IInv, Counted
      <3>4. ASSUME NEW c \in Cmd PROVE child[c] = "reaped" /\ status[c] = "ok"
        <4>1. c \in 1..next - 1
          BY <3>1, <3>2 DEF Cmd, TypeOK
        <4> QED
          BY <2>2, <3>3, <4>1 DEF Open, IInv, Reason
      <3> QED
        BY <2>2, <3>4
    <2> QED
      BY <2>1, <2>2
  <1> QED
    BY <1>1, Invariant, PTL

\* Under -e no command is started once a failed one has been reaped (batch.c 51,
\* 106-112).
THEOREM NoStartAfterFailure == Spec => NoneAfterFailure
  <1>1. IInv /\ [Next]_vars =>
           [e_flag /\ (\E c \in Cmd : child[c] = "reaped" /\ status[c] # "ok") =>
               \A c \in Cmd : child[c] = "none" => child'[c] = "none"]_vars
    <2> SUFFICES ASSUME IInv, Next, e_flag, NEW b \in Cmd, child[b] = "reaped", status[b] # "ok",
                        NEW c \in Cmd, child[c] = "none"
                 PROVE  child'[c] = "none"
      OBVIOUS
    <2>1. TypeOK /\ ~MaySpawn
      BY DEF IInv, Reason, MaySpawn
    <2>2. CASE Surroundings
      BY <2>1, <2>2, Surrounded DEF Alive
    <2>3. CASE Top \/ SpawnDone \/ Join \/ Block \/ NoChild
      BY <2>3 DEF Top, SpawnDone, Join, Block, NoChild, kernel
    <2>4. CASE Fork \/ ForkFailed
      BY <2>1, <2>4 DEF Fork, ForkFailed
    <2>5. CASE Kill
      BY <2>5 DEF Kill, Killpg, Alive
    <2>6. ASSUME NEW d \in Cmd, Reap(d) PROVE child'[c] = "none"
      BY <2>1, <2>6 DEF Reap, TypeOK
    <2> QED
      BY <2>2, <2>3, <2>4, <2>5, <2>6 DEF Next, Main, Surroundings
  <1> QED
    BY <1>1, Invariant, PTL DEF Spec, NoneAfterFailure

=============================================================================
