# Verification of Programming-Examples

The repository is a collection of small C programs, each in a directory of its
own.  This project models those with state worth checking: a chat program that
floods text through a network of processes (`Sockets/gossip.c`), a runner of
parallel commands (`Processes and Signals/batch.c`), a merge sort by processes
and pipes (`Pipes/fsort.c`), a hash dictionary (`Memory Management/dict.c` and
its copy `Files/dict.c`) with a program that counts words in it (`freq.c`), an LZW
compressor (`Files/lzw.c`), a walk through a directory tree (`Directories/tree.c`),
and two filters for text: the conversion of line ends (`Build Automation/chars.c`)
and a histogram of a table (`Pointers and Arrays/hist.c`).

- `tlc -config X.cfg M` runs one configuration; `PROJECT.json` lists which module
  belongs to which, what each run shows, and which line of code each definition
  stands for.
- `tlapm` on `GossipNetProofs`, `GossipLoopProofs`, `BatchProofs`, `Measures`, `FsortProofs`,
  `DictProofs`, `LzwProofs` and `TreeProofs` checks the proofs (section 4).

## 1. Inventory

| Component | State it keeps | Operations | Modules | Status |
|---|---|---|---|---|
| gossip | per process: listener, `peers` (fd, `out` buffer), the `fds` array, `stdin_buf`, `stdin_open`; between processes: sockets | accept, read and flood, write, read standard input, remove a peer, time out, exit | `GossipNet`, `GossipLoop` | partly |
| batch | `commands[]` with their pids, `active`, `pgid`, `error`, `end`, `signal_recieved`; in the kernel: processes, groups, ids | fork/exec, setpgid, killpg, waitpid, signal handler | `Batch` | modelled |
| fsort | per process: its recursion, its copy of the array, pipe descriptors | pipe, fork, read, write, waitpid, merge | `Fsort` | modelled |
| dictionary | array of lists, `cap`, `size` | get, insert (and grow), remove, keys | `Map`, `Dict` | partly |
| lzw | encoder's dictionary and `next_code`, the packed file, decoder's array | compress, pack, unpack, decompress | `Lzw` | modelled |
| tree | current directory, open descriptors, the recursion, options, error flag | walk by `chdir`/`fchdir`, list, sort and print | `Tree` | modelled |
| character conversion | one bit for each direction: a CR is held back | dtou, utod, the loops of tounix and todos | `Chars`, `DosHist` | modelled |
| freq | a dictionary of counts | clean and count a token, print the most frequent words | `Freq` on `Dict` | modelled |
| hist | reused line buffers, counters, `min` and `max` | read a row, draw the chart | `Hist`, `DosHist` | modelled |
| test programs, `Directories/fsort.c` (a stub marked TODO) | - | - | - | not modelled |

How they interact.  gossip processes interact over TCP connections, batch with
its children by process ids, groups, signals and `waitpid`, the processes of
fsort by pipes, inherited descriptors and exit statuses, and tree with whoever
changes the file system.  freq and lzw call the dictionary; lzw's encoder and decoder
meet in the packed file only; tounix, todos and hist are filters, and `DosHist`
connects them as a shell would.

What is hard, and the properties that answer it:

- **gossip.** Text is forwarded to all peers but one, while connections are made
  and lost.  Nothing in a message says where it has been, so that it arrives
  once, in order and in causal order is due to the shape of the network alone, and a
  process, which listens before it dials, can give it a shape in which that is false
  (section 2); as long as none does, it is true (`PerSenderOrder`, `CausalOrder`,
  `NoHoles`).  `POLLOUT` is asked for only while
  something is to be sent (`NoStall`, `HopDelivers`, `RoundsServeAll`).  `fds` is
  filled before `poll` and `peers` changes after it (`StaleSlotOnly`,
  `LivePeersKept`, `IsGossipProcess`).  Relays forward what one `read()` returned
  (`LinesWhole`).
- **batch.** Children exec, end and are killed while the parent is between two
  calls; ids are used again; every call may fail or be interrupted (`Slots`,
  `Announced`, `ExitStatus`, `Terminates`, `NoneAfterFailure`, `EndStops`,
  `FailureKillsRest`).
- **fsort.** A child blocks in `write` until its parent reads; descriptors are
  inherited by children they are not meant for; any process may fail or be killed
  in the middle of its half (`AllEnd`, `ZeroIsSorted`, `NothingLost`,
  `OneHasCause`, `NoneLeft`).
- **dictionary, freq.** Sequences of calls across a growth (`WellFormed`, `IsMap`);
  counts changed behind the dictionary's back (`Tallied`, `TopWords`).
- **lzw.** The decoder is one entry behind the encoder; codes have twelve bits;
  strings end at a byte 0 (`InStep`, `RoundTrip`, `LowDigitsKept`, `CodesKept`).
- **tree.** A name is looked at five times by five system calls, and may be something
  else each time; the way back is by a descriptor (`InPlace`, `AsListed`, `Ends`).
- **text.** A CR is held back between two calls (`Converted`); a buffer is used again
  without being emptied (`RowSums`, `StaysInside`); sums are indices, and below 0
  (`StaysInside`, `EveryRowShown`).

`PROJECT.json` lists each hazard at its line, with the properties that would catch
it or the reason why none does.

## 2. Modules

### GossipNet - a network of processes

One action is one pass of a handler over one descriptor.  `Listen` is
`make_listener` (gossip.c:92), `StartAlone`, `StartDial` and `StartFails` are the rest of
`main` before its loop (107-128); `Accept` is `accept` and `add_peer`;
`TypeLine` is `process_stdin` for one line, or `handle_remaining` for the text
before end of file; `ReadPiece` is one `read()` from a peer: print it and
`send_peers` to all but that peer; `WritePiece` is `output_peers`; `Drop` is
`remove_peer`; `Exit` is the end of `main`.  Text is counted in *pieces*: what one
`read()` returns of a line.

A process dials once, so a connection is named by its dialler.  It has two ends, the
dialler's and the other one's: `[by, side]`, with the process `At(e)` that has the
descriptor, and the opposite end `Far(e)`.  Two processes may have two
connections, one dialled by each, and a process that dials itself has both ends.
`peers` and `backlog` are the ends that stand in `peers.data` and in a listen queue.
`stream[e]` is everything on its way from e.  Its first `sent[e]` pieces
have been written to the socket, the rest is the `out` buffer.  If a process
goes away the pieces in its `out` buffers vanish, and of those in the socket any
suffix may vanish with them (a reset).

`Drop` may remove a peer whose process is still there.  That is what the loop
does through a stale entry of `fds` (see below), so the network's properties hold
with that behaviour, not in spite of leaving it out.

The network's shape: a process listens at line 92 and dials at 114, so it may have been
dialled before it dials.  Two processes that name each other, several in a circle, and one
that names its own port close a *ring*, in which a piece comes back to its sender, and goes
round for ever: `send_peers` skips only the connection it came from.  The model has these
networks, and what the code does in them to every piece.  The properties about the order of text do not
hold there, and say so: their condition is `NoRing`, no process reaches itself by following who
dialled whom.  Without a ring the connections are a forest, whatever the order in which
its processes dial and are dialled.  `anc[n]` (a history variable) is the path from n to
the root of its tree; a dial adds to it for everyone below the dialler.  The properties read it, and
one guard: once a ring is closed a process reads only while its log is shorter than the
bound `RingMax`, since the code would go on for ever.  `Named` is whom each process's
argument may name, in the proofs anyone.

`IInv` is the inductive invariant: `Routing` (types and sizes, and without a ring the forest and
where text flows), `Arrived`, `Causal`, `Whole` and `NoHoles` (section 4).

### GossipLoop - the poll loop of one process

`main` from `make_listener` on (lines 92-358), one action per system call and the code up to
the next, with the arrays and indices as they are: `data` is `peers.data`, from
which `remove_peer` takes an element by putting the last one in its place, `fds`
is filled in `Poll` and keeps its contents from round to round, `i` and `j` are the
two indices.  `Listen` comes before `StartDial`: others may stand in the listen queue
by then, also the process that is dialled, and `StartDial` may dial the process itself.  A read
of `fds[i]` past what this round filled (a peer accepted in
the round) is a read of whatever stands there: the model chooses any value.
`Other...` actions are the processes at the other ends: what `GossipNet` says
processes do, seen from this one.

Refinement: `Net == INSTANCE GossipNet WITH ...` maps the ends in `data` and those that
others hold to `peers`, the listen queues to `backlog`, what is in a socket followed by
the `out` buffer to `stream`, and the length of the former to `sent`.
`IsGossipProcess == Net!Spec`: every system call of the loop is a step of a
process of `GossipNet`, or invisible.  So the network's actions are not a guess
about the loop, rings included.

Its surroundings are one of the constant `Plans`: how much is typed, who else
starts, who may dial whom, and what the others may do.  `LoopAssumption` asks for finitely many plans (then
there is a largest number of lines, which is `GossipNet`'s constant) and for sockets that
hold at least a piece (a socket that takes nothing is never writable).  `IInv` is what
the system calls rely on (section 4).

### Batch - commands at most N at a time

`pc` is the place in the loop of `main` (46-114): `Top` tests `signal_recieved`;
`Fork`, `ForkFailed` and `SpawnDone` are the inner loop, `Join` the parent's
`setpgid`, `Kill` is `killpg` under `end` and the test of `active`, and `Block`,
`NoChild` and `Reap` are `waitpid` and what follows it.  Children move by themselves between any two calls: `Exec`, `ExecFails`, `Finish`;
`Signal` is the handler.  The kernel's part is what decides the interesting cases: an id
is free again once its process has been reaped and its group is empty; `setpgid`
fails after the child's exec and for a group without a living member.  `IInv` is
how the table agrees with the kernel (section 4).

### Fsort - sort by processes

A process is named by the index at which its part begins, and so is the pipe of
that child.  `stack[p]` are p's unfinished calls of `fsort`; each step is a
system call (`PipeFails`, `ForkFails`, `Fork`, `Read`, `ReadEof`, `Wait`, `Write`,
`Exit`) or a small call that needs none (`CallSmall`, `Return`).  `rfd` and `wfd` are
the holders of the two ends of every pipe, inherited at `Fork` as the kernel does
it, so that end of file and SIGPIPE come when the last holder is gone, not when
the intended one is.  `WaitFails` is a `waitpid` that returns -1 (222-224): the halves are
merged all the same, the result is 1, and the child is never waited for.  In a process
with handlers of its own (`fsort` is called by a program), or with SIGCHLD ignored, this may
happen at any time.  `Outer` is `outer` and `Merge` is `merge`, both as
recursive functions on sequences.  Three variables are history: `parent` (who forked a
process), `noFork` (a fork failed) and `abandoned` (the children for which `waitpid`
failed); only the invariant, `OneHasCause` and `NoneLeft` speak of them.  The model
begins with at least one element; for none, `fsort` returns before it does anything.
`IInv` is what the steps rely on (section 4).

### Map, Dict, Freq - the dictionary and its client

`Map` is the promise of `dict.h`: a finite map.  `Dict` is the code: an array of
lists, `dcthash`, growth to twice the capacity plus one, the two branches of
removal.  `Rehash` visits the nodes in the order of the code, by a recursive
function over them, and puts each at the head of its new list.  One action is one
call; `last` is what it returned.  `M == INSTANCE Map
WITH map <- contents`, and `IsMap == M!Spec`.  Both copies of `dict.c` have the same
code here (`Dict` is mapped to one, `Map` to the other); they differ in what
`dctdestroy` frees.

`Freq` extends `Dict` with its clients.  One is any program (`pc = "calls"`): every
sequence of calls.  The other is freq: `Count` cleans a token (`Clean`), asks for its
count, and inserts 1 or increments the count where it is (`Increment`), which is not
a call but must look like one to the map; `Report` collects the counts and sorts
them by `compare_vals`.  `qsort` is external: in the sorted array (`Pairs`) a pair stands
behind exactly those that `compare_vals` puts before it.  `ReportNothing` is a file without a token: for an empty one
`strtok` is given NULL.

### Lzw - compression

`ReadFirst`, `Extend`, `Emit`, `EmitLast` are the loop of `-c`, one byte at a time;
`WriteFile` packs the codes; `Unpack` and `DecodeFirst`, `Decode`, `DecodeDone` are
`-x`.  A code has three digits to the base `D` and a byte two, which are 16 in the
code, so that `pack` makes three bytes of two codes as it does there; strings
are C strings, for which appending a byte 0 does nothing.  `Crash` is the
dereference of NULL for a byte without an entry.  A dictionary is a map, which is
what `Dict` implements.

`Text` is the file without its bytes 0, which is what can come back; `Ascii` says that
every byte has an entry from the beginning, and `Fits` that no code needs a fourth digit.
`InStep` and `RoundTrip` hold under these two; `LowDigitsKept` is what packing keeps
of any codes.  `IInv` is why (section 4).

### Tree - a walk in a file system that changes

`visit`, one system call per action, in its order: `Lstat`, `Readlink` (under `-l`),
`Opendir` (only to see whether it works), `Open` of `"."`, `Chdir`, `List`
(`read_directories`), `VisitKid`, and `Back` (`fchdir` and `close`).  `stack` is the
recursion.  A directory is an object and `cwd` is one of them; a name means something
only in a directory, as an entry that `Change` may replace by a file, a link or
nothing at any moment, and `Chmod` takes and gives permissions.  `fds` counts the
descriptors that are open for the way back, against a limit.  `strayed` (history) is
set when `fchdir` fails, whose result the code ignores.  `Contents` and `Fails` say
what is printed and whether the exit status is a failure if nobody changes anything:
they are written by recursion over the tree, not over the walk.  `IInv` is the
bookkeeping of the recursion (`Bookkeeping`), and that the walk is on its way through that
tree as long as nobody interferes (`OnCourse`, section 4).  That no directory is below
itself, so that going down ends, is an assumption on the file system (`Heights`: a height
for each directory that is less than that of any it is in).

### Chars, Hist, DosHist - filters of text

`Chars` has `dtou` and `utod` as operators that return what is put into `str` and
what becomes of the static `cr`; `Convert` is the loop of `tounix.c` and `todos.c`.
`UnixText` and `DosText` say what becomes of a text as a whole.

`Hist` is `hist.c`: `Header` is the first `fgets`, `Row` one turn of the loop with
its four ways on (quotes, too many characters, another number of cells, a row
counted), `End` is `print_hist`.  Characters and the buffer `cleaned` are there as in
the code, because what a row finds behind its own end is what an earlier one, or
the stack, left there: `clean_str` overwrites only what it needs, and `Cell` looks for
the next cell by passing over bytes 0.  Where the code leaves an array (`cleaned`, `hist`,
`line` of a chart of less than no width), `status` becomes `"undefined"` and
nothing is claimed of what follows.  Numbers are added up without overflow.

`DosHist` is `tounix | hist`, with todos beside it: `Send` lets the conversions read
one more line while hist is anywhere in what it has got.

## 3. Runs

Every run is exhaustive within its bounds.  Symmetry is not used.  `CHECK_DEADLOCK
FALSE` stands in all of them: a gossip network in which no one types and no one
leaves rests in `poll`, and the other programs end.

| Run | Instance | Shows |
|---|---|---|
| `gossip_order` | three processes, two of which may dial the third, which may dial one of them (`Roles`: trees of every shape, and a ring); two lines at one, one at another; sockets that hold one piece; exits and cut connections; under `FairSpec` | `PerSenderOrder`, `CausalOrder`, `NoHoles`, the inductive invariant `IInv` (with the types), `NoStall`, `HopDelivers` |
| `gossip_split` | two processes that type and dial the third one (`Hub`); lines that take two reads; nobody leaves | **violated:** `LinesWhole` |
| `loop_peers` | the loop, with one of five plans for its surroundings: two other processes, which may exit, one dialled and one dialling, before or after; one other process, and each may dial the other; one other process that is dialled or dials, lines of two pieces, a timeout, exits and cuts (two plans); no other, and the process dials itself; under `FairSpec` | the inductive invariant `IInv` (with the types), `IsGossipProcess`, `StaleSlotOnly`, `RoundsServeAll` |
| `loop_cascade` | two other processes that dial this one and may exit | **violated:** `LivePeersKept` |
| `batch_jobs` | four commands two at a time, two lists of commands (failing, not executable, never ending), both values of `-e`, signals, failing forks, three process ids | the inductive invariant `IInv`, `Slots`, `Announced`, `ExitStatus`, `Terminates`, `NoneAfterFailure`, `EndStops` |
| `batch_e_flag` | test 4 (`arg4.txt`): two commands, the first fails | **violated:** `FailureKillsRest` |
| `fsort_faults` | five elements in four arrangements, pipes of two elements, a failing pipe, fork or `waitpid` anywhere, two kills | the inductive invariant `IInv`, `ZeroIsSorted`, `NothingLost`, `OneHasCause`, `NoneLeft`, `AllEnd` |
| `dict_map` | six keys, two values, every sequence of calls; freq on files of up to three of nine tokens, and of five words and three more tokens; three words are printed | `WellFormed`, `Tallied`, `TopWords`, `IsMap` |
| `lzw_text` | base 2: eight codes, three of them characters'; all files of up to seven bytes over two characters and 0, of up to four with a byte that has no code, and of 8 to 28 equal characters | the inductive invariant `IInv` (with the types), `RoundTrip`, `InStep`, `LowDigitsKept` |
| `lzw_long` | base 2: eight codes; one character 28 times | **violated:** `CodesKept` |
| `tree_walk` | three directories in two arrangements, with a file, links and a hidden name; permissions missing in one of them; three or four descriptors; `-a`, `-l` and `-d` of -1, 0, 1 and more; up to two changes by others; under `FairSpec` | the inductive invariant `IInv`, `InPlace`, `AsListed`, `Ends` |
| `hist_tables` | up to three lines of 25: one or two cells, sums at and past the limits, empty and odd cells, five ends of line, quotes, a line that does not fit; buffers of eight characters with two contents; two values of `dflt` | `TypeOK`, `Converted`, `RowSums`, `EveryRowShown`, `StaysInside` |

Why the bounds are enough:

- *gossip.* Three processes are the fewest with a relay.  Either the second is dialled
  by both others and relays as the root, or it dials the third and relays between the one
  it dialled and the one that dialled it, before or after its own dial; the senders are a
  leaf and the relay.  If the second and the third dial each other a ring is closed:
  then reading stops at `RingMax`, one piece in a log, which is enough for the parts of the
  invariant that do not ask for a network without rings.
  A second piece is needed for order, a second sender for causality; a hole is
  a second piece without the first.  A socket of one piece makes `out` buffers fill,
  so that queued and written text differ.  In `gossip_split` a process that joins late
  cannot show the second half of a line without the first as a violation: `LinesWhole` is about
  what stands between two printed pieces of a line.
- *the loop.* Two peers are the fewest for `remove_peer` to move one into the slot
  of the other, and for a forward that skips one.  One process that dials and is dialled is the
  fewest for two connections with the same process, of which one stands in `data` and
  one in the queue.  The process itself is never the
  only one to type: two plans have text in both directions.
- *batch.* Four commands on three ids make an id be used again while the first
  group is alive, and after it is gone.
- *fsort.* 5 = 2 + 3 and 3 = 1 + 2: odd parts, a child with a child, and one
  process with two children in turn.  Two elements in a pipe are fewer than the
  larger half, so that writers block.
- *dictionary.* Six keys force the growth from 5 to 11 lists; `"a"` and `"f"` meet
  in 5 lists, `"a"` and `"l"` in 11, and the two long ones always (the hash looks at
  eight characters).  freq begins with up to three tokens, or with five words that
  fill the lists, so that the array grows between two increments of a count.
- *lzw.* Seven bytes suffice for a code that arrives before its entry (`aaa`) and for
  an odd and an even number of codes, and may use up the eight codes.  Of equal characters, 21 are the
  most for which codes suffice, with 22 one too many is handed out, and with 28 it is written.
- *tree.* Three directories are a way down of two steps and a return that is not to the
  root; two changes are one behind the walk and one before it.  Four descriptors are
  enough for the deepest path and three are not.
- *text.* The second and third line are rows, so that the third is read with the second
  in the buffer; garbage in it is 0 (the search for a cell runs out of the buffer) or
  a digit (it finds one).  One bar holds two rows or one of each of its sums.  One end of
  line holds back a CR over a byte that is no text, and one over the next line.

### Fairness

- `GossipNet`: weak fairness of the start-up between `listen` and the loop (`Begin`:
  `connect` succeeds or fails), and of accepting, reading and writing on each connection.
  `poll` is level-triggered and a round visits every descriptor, so what stays
  ready is served: `RoundsServeAll` checks just that of the loop.  It does so for
  senders that type a bounded text: the code reads a peer until nothing is left
  (gossip.c:293), so that one which sends faster than it is read, for ever, would keep it
  from the others.  Nobody need listen, type, leave, or drop anything.
- `GossipLoop`: the process runs, and a peer reads what it is sent; without the
  latter a full socket is never writable, as in reality.
- `Batch`: batch runs, and its children do until they end; a command that hangs
  has no ending to be fair to.  Forks need not fail and signals need not come.
- `Fsort`: every process that can take a step takes one.  Kills are not fair.
- `Tree`: tree runs.  Others need not change anything.

### Findings

1. `loop_cascade`: when a peer with `POLLHUP` or `POLLERR` is removed
   (gossip.c:332-338), the last peer moves into its slot and is judged by the
   same `fds[i]`, so that it is removed as well, though its process is alive.  In the
   run's trace two processes have dialled this one; one ends, what it is still sent is answered by a
   reset, `poll` reports `POLLHUP`, and both are removed.  `LivePeersKept` leaves out
   peers without an entry of `fds`, so that it is this case and no other.
   `StaleSlotOnly` shows that this, with the unfilled entry of a peer accepted
   in the same round, is the *only* way in which a live peer is lost.
2. `gossip_split`: what one `read` returned is printed and forwarded, not lines.  In the run's
   trace two processes have dialled a third, and each sends a line that takes two reads: the
   third prints a piece of one line between two of the other.  The expected outputs of the tests
   have whole lines (`out3a.txt`).
3. `batch_e_flag`: only the parent calls `setpgid`, and ignores its result.  If the
   child has executed its command first, or the group has died, `-e` does not
   kill it.  Test 4 passes only if the parent is faster.  `EndStops` shows the
   other half: if the commands are in the group, batch does stop.
4. `lzw_long`: `next_code` is not limited to `MAX_CODE`, so that a long text does
   not come back.

Further observations have no run of their own; the properties name them as exceptions:

- gossip has nothing against a network with a ring: a piece then goes round for ever, and
  every terminal shows it again and again (`gossip.c:694`).
- Where `waitpid` fails, fsort does not try again (`fsort.c:222-224`), though it does so for `read`
  and `write`: the result is 1 and the child stays as it is (`WaitFails`; `OneHasCause` and `NoneLeft` name
  this case).
- Where `pipe` fails, fsort sorts the part itself and returns 0, although its comment
  (`fsort.c:137-141`) says 1 if the child processes could not be created.
- `lzw -c` on bytes above 127 dereferences NULL (`Crash`); `RoundTrip` speaks of ASCII.
  There is one exception: after nothing but bytes 0 such a byte is a string that has
  no code, as any longer one, so that it is given the next; the decoder takes that code for
  a string of its own (`Ascii` excludes this as well).
- freq on an empty file calls `strtok(NULL, ...)` first (`ReportNothing`).
- tree ignores the result of `fchdir` (`tree.c:401`).  If a directory's permission is
  taken away while tree is below it, the names that follow are looked up in the
  wrong directory; if they happen to exist there too, the exit status is 0.  `InPlace`
  says that nothing else leads tree astray, a directory moved away or a
  link put in its place after `lstat` included (chdir then follows the link, but the
  way back is right).
- `read_directories` gives `readdir` the NULL of an `opendir` that failed
  (`tree.c:285-288`); this takes somebody's interference or a tree as deep as there are
  descriptors (`AsListed` excludes both).
- hist takes an empty cell for no cell, and reads on into what an earlier row left in
  the buffer, or past it (`hist.c:112`); text of two or more characters behind a number
  is taken for another cell (`hist.c:127-130`); a sum below -90, a line of 8191
  characters without blanks, and a table without a row make it write outside its
  arrays (`hist.c:55`, `99`, `271`).  `StaysInside` says that there is nothing else.  Rows
  with a sum above 990 are counted and not drawn.
- dtou with a `dflt` of CR after a CR sets `str[0]` and does not count it
  (`chars.c:43-48`, against the comment at 15-20): a CR is lost.  A CR that ends the text
  is lost by both programs.  `CR CR LF` becomes `CR LF`, which is a DOS line still.

## 4. Proofs

Every theorem is about the specification for *all* values of the constants, from the
module's named assumption alone.  TLC checks each inductive invariant on the instance
of section 3 as well: `IInv` in `gossip_order`, `loop_peers`, `batch_jobs`, `fsort_faults`,
`lzw_text` and `tree_walk`; `DInv` and `FreqInv` of the dictionary say in terms of nodes what `WellFormed` and
`Tallied` say in terms of places, which `dict_map` checks.

| Module | Theorem | States |
|---|---|---|
| `GossipNetProofs` | `TypeCorrect` | `Spec => []TypeOK` |
| | `Routes` | `Spec => []Routing` |
| | `OrderPerSender` | `Spec => []PerSenderOrder` |
| | `Inductive` | `Spec => []IInv` |
| | `CausallyOrdered` | `Spec => []CausalOrder` |
| | `NothingMissing` | `Spec => []NoHoles` |
| `GossipLoopProofs` | `Invariant` | `Spec => []IInv` |
| | `TypeCorrect` | `Spec => []TypeOK` |
| | `OnlyStaleSlots` | `Spec => StaleSlotOnly` (a property of steps) |
| | `IsOneProcess` | `Spec => IsGossipProcess` (the refinement of `GossipNet`) |
| `BatchProofs` | `Invariant` | `Spec => []IInv` |
| | `KeepsToSlots` | `Spec => []Slots` |
| | `AnnouncedOnce` | `Spec => []Announced` |
| | `StatusIsTrue` | `Spec => []ExitStatus` |
| | `NoStartAfterFailure` | `Spec => NoneAfterFailure` (a property of steps) |
| `FsortProofs` | `OuterSorts` | `outer` returns every sequence sorted, with its elements |
| | `Invariant` | `Spec => []IInv` |
| | `ZeroSorts` | `Spec => []ZeroIsSorted` |
| | `LosesNothing` | `Spec => []NothingLost` |
| | `FailsWithCause` | `Spec => []OneHasCause` |
| | `ReapsAll` | `Spec => []NoneLeft` |
| `DictProofs` | `Invariant` | `Spec => []DInv` |
| | `AlwaysWellFormed` | `Spec => []WellFormed` |
| | `ImplementsMap` | `Spec => IsMap` (the refinement of `Map`) |
| | `FreqInvariant` | `FreqSpec => []FreqInv` |
| | `FreqWellFormed` | `FreqSpec => []WellFormed` |
| | `CountsRight` | `FreqSpec => []Tallied` |
| | `FreqImplementsMap` | `FreqSpec => IsMap` |
| | `PrintsTop` | `FreqSpec => []TopWords` |
| `LzwProofs` | `Invariant` | `Spec => []IInv` |
| | `TypeCorrect` | `Spec => []TypeOK` |
| | `LowDigits` | `Spec => []LowDigitsKept` |
| | `DecoderInStep` | `Spec => []InStep` |
| | `ComesBack` | `Spec => []RoundTrip` |
| `TreeProofs` | `Invariant` | `Spec => []IInv` |
| | `ComesBack` | `Spec => []InPlace` |
| | `Lists` | `Spec => []AsListed` |

### gossip

*From* `NetAssumption`: any set of processes, any number of lines, any line and
socket size, any choice of faults.

All three statements about text are about networks in which no dial has closed a ring
(`NoRing`), since they are false of the others (section 2); the types and sizes, and all that is proved of the
loop, are for every network.  A ring, once closed, stays (`RingStays`), so that the proofs may
assume of a step that it has `NoRing` before if it has it after.

*Order of one sender.*  `PerSenderOrder` is not inductive: a state in which a piece is
about to come back to its sender satisfies it.  `Routing` says why that cannot
happen.  `Forest`: without a ring, for each sender s the connections dialled by the processes on
the path `anc[s]` lead up to its root, and all others lead down.
`Away(e, s)`: what is sent from the end e goes in this direction.  `Flow`: text of s
is on its way only away from s, and in the tree of s; a process has seen whatever it
passes on, the far end of a connection has seen no more than the near end, and
what is on its way is newer than what has arrived.  The lemma `OneWayIn` then
gives it: for each sender a process has exactly one connection at which its text
can arrive, and `send_peers`, which skips that one, sends it further away (`Onward`).
A dial joins two trees: the dialler was the root of one (it had not dialled), all that is below it gets
the path of whom it dialled, and no direction changes within either tree (`ForestDial`, `DialAway`).
The steps are proved one action at a
time: `TypeStep`, `ForestStep`, `FlowStep`, with `FlowDial`, `FlowType` and `FlowRead`
for the three that move or relate text, and `FlowKept` for those that only lose
some (`FlowClose`).

*Causal order.*  Say s typed q after it had seen p.  `Causal` says, of all such p and
q: they are in this order in every log, and in every stream; p is not on its way to
anyone who has q; and whoever has q and lies between the sender of p and s has p.  The
last is what makes the rest inductive.  When q is relayed to a process b, p must not
arrive at b later: if the connection leads towards the sender of p, then b lies on the
way that p took to s (the lemma `Between`), so it has p already; if it leads away from both,
p was put into the same stream before q.  `Arrived` (other people's text has come in by a
connection) excludes a process that has no connection yet.

*Nothing missing.*  `Due(e, s)` is what the process at the far end of e has seen of s and what is on
its way to it from e.  `NoHoles` says that these are consecutive, up to the newest piece that the near
end has seen, on every connection that leads away from s.  A connection that has been dialled but not
accepted gets nothing yet: if it got a later piece first, there would be a hole.
`Whole` says that there is nothing at all on such a connection, and that a sender has
all of its own text, which is where every stream of its text begins.

### the poll loop

*From* `LoopAssumption`: any processes, any plans (finitely many), any line and socket size; with
rings and without.

`IsGossipProcess` needs, of each system call, that the step of `GossipNet` it stands for
is allowed there; `IInv` is what that takes.  `Slots`: an end of a connection has one slot of `data`, or
one place in one listen queue, but not both, so that `data` can be read as a set of ends, each with
one `out` buffer, wherever `remove_peer` moves a slot (`Removed`).  A *process* may have a slot and a place in
the queue: one that this process has dialled, and that had dialled it.  `Buffers`: an end that nobody else holds
has nothing in the buffer the model keeps for it.  `Ends`: whose the ends are.
`Started`: nobody has dialled before it listens, and where `main` is before, in and after its loop.
`Typing`: what is typed is numbered on
and goes out by whole lines, but for the rest at end of file.  `Indices`: `peers.data[j]`
is an element where it is used.  `Judged`: a connection is reset only if its other end is
closed, and only such a one has `POLLHUP` in `fds`.  An entry of `fds` that
this round did not fill is not mentioned, which is the hole that `StaleSlotOnly`
describes: `OnlyStaleSlots` says that a live peer is removed only through it.

`NetValues` reads off the mapping what a stream is and how much of it has been
written; `TextIsQueued`, `PieceIsPassed`, `PieceMoves` and `TextIsCut` say what the four ways of touching
text do to it.  Then there is one lemma for each kind of step of the network: `LineGoesOut`, `PieceIsRead`,
`PieceIsWritten`, `PeerIsDropped`, `LoopEnds` and `DialIsMade` for the process itself, `FarTypes` to
`FarDrops` for the others; `StepMaps` puts every system call under one of them, or says that
the network does not see it.

### batch

*From* `BatchAssumption`: any number of commands of any kind, any N, any ids, with or
without signals and failing forks.

`Slots` counts children, the code counts `active`, and a failing fork is counted by
the code alone.  `Counted`: `active` is the number of commands up to `next` that have not
been reaped, which are the children and the failed forks.  `InOrder`: the
children are those before `next`, but for the one between `fork` and `setpgid`.
`Ids`: no two living children share an id, and `commands[]` has the id of exactly those that have
not been reaped, so that `find_process` finds one entry and the right one
(lemma `FindsProcess`), though the ids of reaped children are used again.  `Reason`: what
`error` and `end` mean, from which `NoneAfterFailure` follows: once a failed command
is reaped under `-e`, `end` stays.  `Stopping`: why the loop may be where it is.

### fsort

*From* `FsortAssumption`: any number of elements, any array, any smallest part, any size of
pipe, any number of kills, with or without failing pipes, forks and `waitpid`s.

The first part of `FsortProofs` is what the code computes.  `OuterSorts`: `outer` with `merge` returns a
sequence that is sorted and has the same elements, each as often, by induction on the
length of the sequence; `MergeSorts` is the same for `merge`, by induction on the sum of
the lengths.  The second part is about parts of an array, which is what processes sort, and
the third about the processes.  No property is inductive by itself, since what the first
process returns depends on all others.
`Stacks`: the calls of a process halve the part each time, and stay in the array.
`Fresh`: what a call has still to sort is nobody's part, so that a forked child takes a
free name.  `Families`: the child of a call that waits for it was forked for the other half, has not
been reaped, and the parent has the read end as long as it reads; so EPIPE comes
only after a kill.  `Owned`: conversely, every process has such a call, unless someone was
killed, or it is *forsaken*: `waitpid` failed for it, and then it has ended or has sent all
it had.  `Pipes`: nothing is written before it is sorted, and a living child holds its write
end, so that end of file comes only when it is dead.  `Causes`: where an error begins: with a failing fork, a failing `waitpid` or a kill.
`Contents`: a process has sorted what it has not yet given to a child, what it has read is what the child has
in memory, and what an exited child had was sorted, or is marked as failed.  The steps
that need most of it are `ForkInv`, where one process becomes two, and `ReturnInv`,
where a half read from a child and the one sorted here become one.

### dictionary and freq

*From* `DictAssumption`: any keys of ASCII characters, any values without NULL; for freq
also from `FreqAssumption`: any files whose cleaned words are among the keys and whose
numbers of tokens are among the values (in C every string and every count is).

The places of nodes change at every growth, so that the proof speaks of the set
`Recs(arr)` of nodes instead.  `DInv`: every list has only nodes that hash to it
(`Index` is a recursive function over the key's characters), no key is twice in a list, and
`size` is the number of nodes.  It follows that a key determines its node
(`Found`), and each call is described by what it does to the set: `GetDoes`
and `KeysDoes` leave it, `RemoveDoes` takes out the node of a key and
`InsertDoes` puts one in its place.  `Rehashed` is the growth: an array of another capacity
in which the same nodes are where their keys hash to now.  It is an induction over the nodes
already visited, whose invariant is that the new lists have exactly those.  `DInvWellFormed`
counts places instead of nodes.  For `ImplementsMap`, `AsMap` makes a map of a set of nodes,
`contents` is `AsMap(Recs(arr))`, and `StepMaps` maps each call to the map's.

freq calls `dctinsert` for a new word and writes through a pointer for an old one.  Both
put a node in the place of the one of its key (`InsertDoes`, `IncrementDoes`, both by
`Replaced`), and whatever does so is an insertion for the map (`InsertIs`).  `FreqInv`: the set of
nodes is `Tally(pos)`, each word with the number of tokens that were it; `TallyGrows` is
the tally with one token more.

What is printed is found by rank, the number of pairs that `compare_vals` puts before one.
`compare_vals` is a strict total order of pairs with different words (`BeforeOrders`), so that no
two ranks are equal and a pair comes before another if its rank is lower; there are as many
ranks as pairs, so that every place up to `size` is taken (`Ranks`).  `PairsSorted` and
`PairsAreWords` say so of the array, and `ReportDoes` of its first ten.

### lzw

*From* `LzwAssumption`: any base of digits above 1, any first code that is a byte, any set of files, of
any length and with any bytes.

*Packing.*  The arithmetic of three digits is nonlinear, and is done once: `Cancel`, `Sizes`, `Digits` and
`Middle` say what quotients and remainders to the base `D` are, `PairBack` and `LastBack` that
unpacking one call of `fwrite` returns its two codes, or one, and `Unpacked` that
unpacking all returns the low three digits of all, for an odd and an even number.

*The two dictionaries.*  The decoder's dictionary is never the encoder's at the time of any one code:
`InStep` compares it with the dictionary that the encoder has when it is done, and needs to know
how that came about.  `Numbered`: the encoder's dictionary and its codes determine each other.
`Counted`: each code but the last came with one new string, and none was used before its string
was there, so that the k-th code is at most the last one that the decoder knows before it, plus 1.
`Grown`: the new string of the k-th code is that code's, and the first character of the (k+1)-st code's; and
the strings of the codes so far, with `prev`, are the text read so far.  `Handed`: the decoder starts with
just the characters and with the low digits of the codes, which by `Fits` are the codes.  `Followed`:
after k codes the decoder knows the strings that came with the first k - 1, has written the text of k, and
`prev_str` is the string of the k-th.  The one case in which the next code is not known yet (`Behind`) is the
code whose string came with the k-th itself: then its first character is that of `prev_str`, and
what `Value` makes up is what `Grown` says of it.  `RoundTrip` is `Followed` at the last code.

### tree

*From* `TreeAssumption`: any file system of finitely many directories and names in which no
directory is below itself, any arguments, limit of descriptors and number of changes by others.

*Coming back.*  `InPlace` speaks of the innermost call only, and what happens
when that one returns depends on all others.  `Outer`: they are all visiting
their kids.  `Placed`: what a call saved is the directory it was made in, and the
current directory is that one or its own, which is where the calls it makes
begin.  `Counted`: the open descriptors are those of the calls that are inside.
`Unhindered`: while nobody has changed anything, every saved directory may be
entered again, as `open(".")` could list it; so an `fchdir` that fails is
somebody's doing.  The steps come down to three: a call returns (`ReturnKeeps`),
goes on (`BecomeKeeps`) or makes another (`CallKeeps`); `StepBooks` puts every
action under one of them.

*The listing.*  `AsListed` compares what was printed at the end with a recursion that knows
nothing of the walk.  `OnCourse` says it of every state, while nobody interferes: what was
printed, followed by what the unfinished calls owe, the innermost first (`Owed`), is the
listing, and there are failures in it if and only if there were some or some call will meet
one.  What a call owes (`Rest`) depends on where it is: its line and what is below it,
only that, or the names it has still to visit.  `OnItsWay` is what it has found so far: that
its name is shown, that it leads to a directory that can be listed and entered, and
that the depth and the directory's height are together less than the number of directories,
from which it follows that a descriptor is left whenever one is needed (`Standing`), so that `readdir` never
gets a NULL.  The steps are again three: a call prints what it owes and returns
(`ReturnCourse`), prints some of it and goes on (`BecomeCourse`), or has its first name's part
owed by a new call (`VisitKidCourse`, by `OneByOne`).

`Contents` and `Fails` are recursive functions, over places of three parts.  That they are
what their definitions say (`ContentsEquation`, `FailsEquation`) is by `Recursion`, where the
measure is the depth that is left and then the number of names (`Sizes`).  `FlattenIs` and
`FlattenMore` say the same of the library's `FlattenSeq`: one text more in front of the others
is in front of the whole.

### Recursion

The library states induction as theorems with an operator as parameter, which the
installed provers cannot instantiate.  `Measures` does without: `LeastNat` (a set of numbers
that is not empty has a least one) makes an induction a contradiction about the least
exception, and `Recursion` shows that a recursive *function* whose calls have a lesser measure
exists, so that its definition is an equation to reason with.  `Iterate` is the
case of a loop over 0..n.  `Climb` is plain induction up to n, and
`DivMod` has the facts on quotients that the solver does not find.

### Only model-checked

- Liveness, which is out of the prover's reach: `NoStall`, `HopDelivers`,
  `RoundsServeAll`, `Terminates`, `EndStops`, `AllEnd`, `Ends`.
- Everything of `Chars`, `Hist` and `DosHist`: whole texts are conversions by `SelectSeq`, which
  the provers know nothing of.
- `CodesKept`, which is false; `LowDigits` says what holds instead.

## 5. What is not modelled

- gossip: arguments and the form of a message; elapsed time (a timeout may come
  whenever nothing has been read); growth of buffers and memory (lines 368-399);
  what happens in a network with a ring after the first pieces (`RingMax`).
- batch: arguments (the commands are the constant `Jobs`); signals that the terminal
  sends to the whole foreground group; processes of other programs, which may get
  an id that batch still has in `pgid`.
- fsort: element sizes: an element is written whole, and the counts in bytes,
  which are `int`, do not overflow.  A call for no elements, which returns at once.
- dictionary: `dctdestroy` and the ownership of keys and values; keys with bytes
  above 127.
- freq: reading the file into one string, errors of arguments and files.
- lzw: errors of files, packed files that lzw did not write.
- tree: what a line looks like (permissions, indentation, the target of a link); the
  path given as an argument; failures of `malloc` and of `readdir`; directories that
  others create.  `tree.c` has a second `main` at its end (409-429), an unfinished
  exercise: the model is of the program before it.
- conversion: a `dflt` that changes from call to call, as in the tests, or is CR.
- hist: labels and frame of the chart, sums beyond `int`, a last line without a line end
  but for one held back with its CR.
- the test programs: calls that the models make in every order.
- Hazards without a property, which are not in `PROJECT.json` for that reason: the growth of
  gossip's `out` buffers when a peer does not read; batch's `pgid` naming a group
  of strangers; counts of bytes in fsort as `int`.

## 6. Plan

Done: all components of section 1, with proofs of all but the text filters.

To be proved: the types of `DosHist`, and `StaysInside`, which does not need the whole text.
