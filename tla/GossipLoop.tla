------------------------------ MODULE GossipLoop ------------------------------
(***************************************************************************)
(* main of one gossip process, Self, system call by system call             *)
(* (Sockets/gossip.c:77-358), among processes that have connections with    *)
(* it.  What the others do is what GossipNet says processes do, seen from   *)
(* the other end of a socket; the loop itself is modelled with the arrays   *)
(* and indices of the code: peers.data, whose removed element is overwritten*)
(* by the last one, and fds, filled before poll and read after it.          *)
(*                                                                         *)
(* Self listens before it dials: others, and the very process it dials, may *)
(* stand in its listen queue by then; and it may dial itself.               *)
(*                                                                         *)
(* Refinement: the loop is a process of GossipNet (Net!Spec, at the end).   *)
(***************************************************************************)
EXTENDS Integers, FiniteSets, SequencesExt

CONSTANTS
    Node, None,         \* as in GossipNet
    Self,               \* the process whose loop is modelled
    Listener, Stdin,    \* its two descriptors that are not peers
    LineLen,            \* as in GossipNet
    SockBuf, RingMax,   \* bounds, as in GossipNet
    Plans               \* what may happen, see below; a behaviour follows one of them

Other == Node \ {Self}

\* The ends of connections, as in GossipNet.
End == [by : Node, side : {"dial", "accept"}]

ASSUME LoopAssumption ==
    /\ Self \in Node
    /\ None \notin Node
    /\ {Listener, Stdin} \cap End = {}
    /\ LineLen \in Nat \ {0}
    /\ SockBuf \in Nat \ {0}
    /\ RingMax \in Nat
    /\ IsFiniteSet(Plans)
    /\ Plans \subseteq
          [pieces : [Node -> Nat],              \* bound: how many pieces are typed
           others : SUBSET Node,                \* the other processes that start
           dials : [Node -> SUBSET Node],       \* whom Self may dial, who may dial Self
           faults : SUBSET {"exit", "cut"},     \* what the others may do
           timeout : BOOLEAN]                   \* whether -t was given

VARIABLES
    plan,
    pc,         \* where main is: "off", "listen", "poll", "accept", "stdin", "hup",
                \* "serve", "read", "write", "done"
    data,       \* peers.data[0 .. len - 1]; fd names the end it is a descriptor of
    fds,        \* the pollfd array, as poll left it
    i, j,       \* main's indices into fds and peers.data, from 1
    revents,    \* fds[i].revents, copied
    gone,       \* should_remove
    stdinOpen,  \* stdin_open
    input,      \* stdin_buf: the pieces of an unfinished line
    pipe,       \* what the user typed and the process has not read
    pipeOpen,   \* the user can still type
    queue,      \* Self's listen queue
    sock,       \* sock[e]: the pieces written at e that the other end has not read
    outs,       \* outs[e]: the out buffer of an end of another process
    holds,      \* the ends that other processes have among their peers
    hears,      \* the ends in other processes' listen queues
    reset,      \* ends of Self whose other end answered with a reset
    status, remote, typed, log, anc     \* as in GossipNet

loop == <<pc, data, fds, i, j, revents, gone, stdinOpen, input>>
user == <<pipe, pipeOpen>>
conns == <<queue, sock, outs, holds, hears, reset>>
net == <<status, remote, typed, log, anc>>
vars == <<plan, loop, user, conns, net>>

\* POLLERR and POLLNVAL are treated by the code like POLLHUP.
Events == {"POLLIN", "POLLOUT", "POLLHUP"}
Piece == [src : Node, no : Nat]

\* As in GossipNet: the process of an end, the other end, and that no dial has
\* closed a ring.
At(e) == IF e.side = "dial" THEN e.by ELSE remote[e.by]
Far(e) == [by |-> e.by, side |-> IF e.side = "dial" THEN "accept" ELSE "dial"]
NoRing == \A n \in Node : remote[n] # None => n \notin anc[remote[n]]

DialEnd(n) == [by |-> n, side |-> "dial"]
AcceptEnd(n) == [by |-> n, side |-> "accept"]

\* The ends in a peer array d, and the out buffer of one.
EndsIn(d) == {d[k].fd : k \in 1..Len(d)}
OutIn(d, e) ==
    IF e \in EndsIn(d) THEN d[CHOOSE k \in 1..Len(d) : d[k].fd = e].out ELSE <<>>

Conns == EndsIn(data)
OutOf(e) == OutIn(data, e)

\* Nobody holds the end e any more, or may still accept it.
Closed(e) == e \notin Conns \cup ToSet(queue) \cup holds \cup hears

TypeOK ==
    /\ plan \in Plans
    /\ pc \in {"off", "listen", "poll", "accept", "stdin", "hup", "serve", "read", "write", "done"}
    /\ data \in Seq([fd : End, out : Seq(Piece)])
    /\ fds \in Seq([fd : End \cup {Listener, Stdin}, revents : SUBSET Events])
    /\ i \in Nat /\ j \in Nat
    /\ revents \subseteq Events
    /\ gone \in BOOLEAN
    /\ stdinOpen \in BOOLEAN /\ pipeOpen \in BOOLEAN
    /\ input \in Seq(Piece) /\ pipe \in Seq(Piece)
    /\ queue \in Seq(End)
    /\ sock \in [End -> Seq(Piece)]
    /\ outs \in [End -> Seq(Piece)]
    /\ holds \subseteq End /\ hears \subseteq End /\ reset \subseteq End

Init ==
    /\ plan \in Plans
    /\ pc = "off"
    /\ data = <<>> /\ fds = <<>>
    /\ i = 1 /\ j = 1
    /\ revents = {} /\ gone = FALSE
    /\ stdinOpen = TRUE /\ input = <<>>
    /\ pipe = <<>> /\ pipeOpen = TRUE
    /\ queue = <<>>
    /\ sock = [e \in End |-> <<>>]
    /\ outs = [e \in End |-> <<>>]
    /\ holds = {} /\ hears = {} /\ reset = {}
    /\ status = [n \in Node |-> "off"]
    /\ remote = [n \in Node |-> None]
    /\ typed = [n \in Node |-> 0]
    /\ log = [n \in Node |-> <<>>]
    /\ anc = [n \in Node |-> {n}]

-----------------------------------------------------------------------------
(* The other processes and the user.                                       *)

Line(n, k, len) == [x \in 1..len |-> [src |-> n, no |-> k + x]]

\* The history of a dial from n to r.
Joins(n, r) ==
    /\ remote' = [remote EXCEPT ![n] = r]
    /\ anc' = [m \in Node |-> IF n \in anc[m] THEN anc[m] \cup anc[r] ELSE anc[m]]

OtherListens(c) ==
    /\ c \in plan.others
    /\ status[c] = "off"
    /\ status' = [status EXCEPT ![c] = "listening"]
    /\ UNCHANGED <<loop, user, conns, remote, typed, log, anc>>

OtherStarts(c) ==
    /\ status[c] = "listening"
    /\ status' = [status EXCEPT ![c] = "up"]
    /\ UNCHANGED <<loop, user, conns, remote, typed, log, anc>>

\* Self listens, and has perhaps not dialled yet, or has dialled c.
OtherDials(c) ==
    /\ status[c] = "listening"
    /\ Self \in plan.dials[c]
    /\ status[Self] \in {"listening", "up"}
    /\ status' = [status EXCEPT ![c] = "up"]
    /\ Joins(c, Self)
    /\ holds' = holds \cup {DialEnd(c)}
    /\ queue' = Append(queue, AcceptEnd(c))
    /\ UNCHANGED <<loop, user, sock, outs, hears, reset, typed, log>>

OtherAccepts(e) ==
    /\ e \in hears
    /\ status[At(e)] = "up"
    /\ hears' = hears \ {e}
    /\ holds' = holds \cup {e}
    /\ UNCHANGED <<loop, user, queue, sock, outs, reset, net>>

\* What c queues at all its ends but those in skip.
OtherSends(c, skip, ps) ==
    outs' = [e \in End |-> IF e \in holds \ skip /\ At(e) = c THEN outs[e] \o ps ELSE outs[e]]

OtherTypes(c) ==
    /\ status[c] = "up"
    /\ typed[c] % LineLen = 0
    /\ \E len \in 1..LineLen :
          /\ typed[c] + len <= plan.pieces[c]
          /\ typed' = [typed EXCEPT ![c] = @ + len]
          /\ log' = [log EXCEPT ![c] = @ \o Line(c, typed[c], len)]
          /\ OtherSends(c, {}, Line(c, typed[c], len))
    /\ UNCHANGED <<loop, user, queue, sock, holds, hears, reset, status, remote, anc>>

OtherWrites(e) ==
    /\ e \in holds
    /\ outs[e] # <<>>
    /\ Len(sock[e]) < SockBuf
    /\ sock' = [sock EXCEPT ![e] = Append(@, Head(outs[e]))]
    /\ outs' = [outs EXCEPT ![e] = Tail(@)]
    /\ UNCHANGED <<loop, user, queue, holds, hears, reset, net>>

\* A process that Self has dialled and that has dialled Self passes on between
\* the two connections.
OtherReads(e) ==
    /\ e \in holds
    /\ sock[Far(e)] # <<>>
    /\ NoRing \/ Len(log[At(e)]) < RingMax
    /\ sock' = [sock EXCEPT ![Far(e)] = Tail(@)]
    /\ log' = [log EXCEPT ![At(e)] = Append(@, Head(sock[Far(e)]))]
    /\ OtherSends(At(e), {e}, <<Head(sock[Far(e)])>>)
    /\ UNCHANGED <<loop, user, queue, holds, hears, reset, status, remote, typed, anc>>

\* Ends of other processes are closed, because these exit or drop Self, and
\* what was in flight may be lost from some piece on.
OtherCloses(es) ==
    /\ holds' = holds \ es
    /\ hears' = hears \ es
    /\ \E keep \in [holds \cap es -> 0..SockBuf] :
          /\ \A e \in holds \cap es : keep[e] <= Len(sock[e])
          /\ sock' = [e \in End |-> IF e \in holds \cap es THEN SubSeq(sock[e], 1, keep[e])
                                    ELSE sock[e]]
    /\ outs' = [e \in End |-> IF e \in holds \cap es THEN <<>> ELSE outs[e]]
    /\ UNCHANGED <<loop, user, queue, reset, remote, typed, log, anc>>

\* The end of another process, after its loop or before.
OtherExits(c) ==
    /\ "exit" \in plan.faults
    /\ status[c] \in {"listening", "up"}
    /\ status' = [status EXCEPT ![c] = "down"]
    /\ OtherCloses({e \in holds \cup hears : At(e) = c})

OtherDrops(e) ==
    /\ e \in holds
    /\ Closed(Far(e)) \/ "cut" \in plan.faults
    /\ OtherCloses({e})
    /\ UNCHANGED status

\* A closed end answers what it is still sent with a reset.
Resets(e) ==
    /\ e \in Conns \cup ToSet(queue)
    /\ Closed(Far(e))
    /\ reset' = reset \cup {e}
    /\ UNCHANGED <<loop, user, queue, sock, outs, holds, hears, net>>

UserTypes ==
    LET k == typed[Self] + Len(input) + Len(pipe) IN
    /\ pipeOpen
    /\ k < plan.pieces[Self]
    /\ pipe' = Append(pipe, [src |-> Self, no |-> k + 1])
    /\ UNCHANGED <<loop, pipeOpen, conns, net>>

UserEnds ==
    /\ pipeOpen
    /\ pipeOpen' = FALSE
    /\ UNCHANGED <<loop, pipe, conns, net>>

-----------------------------------------------------------------------------
(* main, before and after the loop.                                        *)

\* make_listener: from here on Self can be dialled.
Listen ==
    /\ pc = "off"
    /\ pc' = "listen"
    /\ status' = [status EXCEPT ![Self] = "listening"]
    /\ UNCHANGED <<data, fds, i, j, revents, gone, stdinOpen, input, user, conns,
                   remote, typed, log, anc>>

StartAlone ==
    /\ pc = "listen"
    /\ pc' = "poll"
    /\ status' = [status EXCEPT ![Self] = "up"]
    /\ UNCHANGED <<data, fds, i, j, revents, gone, stdinOpen, input, user, conns,
                   remote, typed, log, anc>>

\* connect_port and add_peer: the connection to r is the first peer, and stands
\* in the listen queue of r, which may be Self.
StartDial(r) ==
    /\ pc = "listen"
    /\ r \in plan.dials[Self]
    /\ status[r] \in {"listening", "up"}
    /\ pc' = "poll"
    /\ status' = [status EXCEPT ![Self] = "up"]
    /\ Joins(Self, r)
    /\ data' = <<[fd |-> DialEnd(Self), out |-> <<>>]>>
    /\ queue' = IF r = Self THEN Append(queue, AcceptEnd(Self)) ELSE queue
    /\ hears' = IF r = Self THEN hears ELSE hears \cup {AcceptEnd(Self)}
    /\ UNCHANGED <<fds, i, j, revents, gone, stdinOpen, input, user,
                   sock, outs, holds, reset, typed, log>>

\* connect_port fails: close(listener).
StartFails ==
    /\ pc = "listen"
    /\ plan.dials[Self] # {}
    /\ pc' = "done"
    /\ status' = [status EXCEPT ![Self] = "down"]
    /\ queue' = <<>>
    /\ UNCHANGED <<data, fds, i, j, revents, gone, stdinOpen, input, user,
                   sock, outs, holds, hears, reset, remote, typed, log, anc>>

\* close(listener) and free_peers.
Shutdown ==
    /\ pc' = "done"
    /\ status' = [status EXCEPT ![Self] = "down"]
    /\ data' = <<>> /\ queue' = <<>>
    /\ \E keep \in [Conns -> 0..SockBuf] :
          /\ \A e \in Conns : keep[e] <= Len(sock[e])
          /\ sock' = [e \in End |-> IF e \in Conns THEN SubSeq(sock[e], 1, keep[e]) ELSE sock[e]]
    /\ UNCHANGED <<fds, i, j, revents, gone, stdinOpen, input, user, outs,
                   holds, hears, reset, remote, typed, log, anc>>

\* remain <= 0 or poll() = 0; elapsed time is left out.
TimesOut == pc = "poll" /\ plan.timeout /\ Shutdown

-----------------------------------------------------------------------------
(* poll.                                                                   *)

\* Standard input may be a pipe (which reports POLLHUP when its writer is
\* gone), a file (POLLIN at its end), or a terminal (both).
StdinEvents ==
    CASE pipe # <<>> /\ pipeOpen  -> {{"POLLIN"}}
      [] pipe # <<>> /\ ~pipeOpen -> {{"POLLIN"}, {"POLLIN", "POLLHUP"}}
      [] pipe = <<>> /\ pipeOpen  -> {{}}
      [] pipe = <<>> /\ ~pipeOpen -> SUBSET {"POLLIN", "POLLHUP"} \ {{}}

\* Mutant: POLLOUT is asked for when more than one piece is left.
PeerEventsLate(p) ==
    {e \in Events :
        \/ e = "POLLIN" /\ (sock[Far(p.fd)] # <<>> \/ Closed(Far(p.fd)))
        \/ e = "POLLOUT" /\ Len(p.out) > 1 /\ (Len(sock[p.fd]) < SockBuf \/ p.fd \in reset)
        \/ e = "POLLHUP" /\ p.fd \in reset}

\* POLLOUT is asked for only when there is something to write.
PeerEvents(p) ==
    {e \in Events :
        \/ e = "POLLIN" /\ (sock[Far(p.fd)] # <<>> \/ Closed(Far(p.fd)))
        \/ e = "POLLOUT" /\ p.out # <<>> /\ (Len(sock[p.fd]) < SockBuf \/ p.fd \in reset)
        \/ e = "POLLHUP" /\ p.fd \in reset}

Poll ==
    /\ pc = "poll"
    /\ \E s \in StdinEvents :
          LET listen == [fd |-> Listener, revents |-> IF queue # <<>> THEN {"POLLIN"} ELSE {}]
              stdin == [fd |-> Stdin, revents |-> s]
              peer == [k \in 1..Len(data) |->
                         [fd |-> data[k].fd, revents |-> PeerEvents(data[k])]]
          IN fds' = (IF stdinOpen THEN <<listen, stdin>> ELSE <<listen>>) \o peer
    /\ \E k \in 1..Len(fds') : fds'[k].revents # {}
    /\ pc' = "accept"
    /\ i' = 1
    /\ UNCHANGED <<data, j, revents, gone, stdinOpen, input, user, conns, net>>

-----------------------------------------------------------------------------
(* The listener and standard input.                                        *)

AcceptPeer ==
    /\ pc = "accept"
    /\ "POLLIN" \in fds[i].revents
    /\ queue # <<>>
    /\ data' = Append(data, [fd |-> Head(queue), out |-> <<>>])
    /\ queue' = Tail(queue)
    /\ UNCHANGED <<pc, fds, i, j, revents, gone, stdinOpen, input, user,
                   sock, outs, holds, hears, reset, net>>

AcceptDone ==
    /\ pc = "accept"
    /\ "POLLIN" \in fds[i].revents => queue = <<>>
    /\ i' = i + 1
    /\ pc' = IF stdinOpen THEN "stdin" ELSE "serve"
    /\ j' = 1
    /\ UNCHANGED <<data, fds, revents, gone, stdinOpen, input, user, conns, net>>

\* send_peers with skip, an index of data or 0.
SendPeers(skip, ps) ==
    data' = [k \in 1..Len(data) |->
               IF k = skip THEN data[k] ELSE [data[k] EXCEPT !.out = @ \o ps]]

\* create_buffer_message and send_peers for the text of one line.
SendLine(ps) ==
    /\ SendPeers(0, ps)
    /\ log' = [log EXCEPT ![Self] = @ \o ps]
    /\ typed' = [typed EXCEPT ![Self] = @ + Len(ps)]
    /\ input' = <<>>

EndsLine(p) == p.no % LineLen = 0

\* read() > 0 and process_stdin: the line goes out once its last piece is in.
ReadStdin ==
    /\ pc = "stdin"
    /\ "POLLIN" \in fds[i].revents
    /\ pipe # <<>>
    /\ pipe' = Tail(pipe)
    /\ \/ EndsLine(Head(pipe)) /\ SendLine(Append(input, Head(pipe)))
       \/ /\ ~EndsLine(Head(pipe))
          /\ input' = Append(input, Head(pipe))
          /\ UNCHANGED <<data, log, typed>>
    /\ UNCHANGED <<pc, fds, i, j, revents, gone, stdinOpen, pipeOpen, conns,
                   status, remote, anc>>

HandleRemaining ==
    \/ input # <<>> /\ SendLine(input)
    \/ input = <<>> /\ UNCHANGED <<data, log, typed, input>>

StdinEof ==
    /\ pc = "stdin"
    /\ "POLLIN" \in fds[i].revents
    /\ pipe = <<>> /\ ~pipeOpen
    /\ HandleRemaining
    /\ stdinOpen' = FALSE
    /\ pc' = "hup"
    /\ UNCHANGED <<fds, i, j, revents, gone, user, conns, status, remote, anc>>

\* EAGAIN, or nothing to read in the first place.
StdinEmpty ==
    /\ pc = "stdin"
    /\ "POLLIN" \in fds[i].revents => pipe = <<>> /\ pipeOpen
    /\ pc' = "hup"
    /\ UNCHANGED <<data, fds, i, j, revents, gone, stdinOpen, input, user, conns, net>>

\* read() fails: standard input is given up, stdin_buf is not sent.
StdinFails ==
    /\ pc = "stdin"
    /\ "POLLIN" \in fds[i].revents
    /\ stdinOpen' = FALSE
    /\ pc' = "hup"
    /\ UNCHANGED <<data, fds, i, j, revents, gone, input, user, conns, net>>

StdinHup ==
    /\ pc = "hup"
    /\ \/ /\ "POLLHUP" \in fds[i].revents
          /\ HandleRemaining
          /\ stdinOpen' = FALSE
       \/ /\ "POLLHUP" \notin fds[i].revents
          /\ UNCHANGED <<data, log, typed, input, stdinOpen>>
    /\ i' = i + 1
    /\ pc' = "serve"
    /\ UNCHANGED <<fds, j, revents, gone, user, conns, status, remote, anc>>

-----------------------------------------------------------------------------
(* The peers.                                                              *)

\* A peer accepted in this round has no entry in fds: what lies behind the
\* array is read, and any event may be found there.
NextPeer ==
    /\ pc = "serve"
    /\ j <= Len(data)
    /\ revents' \in IF i <= Len(fds) THEN {fds[i].revents} ELSE SUBSET Events
    /\ gone' = FALSE
    /\ pc' = "read"
    /\ UNCHANGED <<data, fds, i, j, stdinOpen, input, user, conns, net>>

RoundDone ==
    /\ pc = "serve"
    /\ j > Len(data)
    /\ pc' = "poll"
    /\ i' = 1 /\ j' = 1 /\ fds' = <<>>
    /\ UNCHANGED <<data, revents, gone, stdinOpen, input, user, conns, net>>

Fd == data[j].fd

\* What ReadPeer does, the piece going to all peers but the one at skip.
ReadPeerFrom(skip) ==
    LET p == Head(sock[Far(Fd)]) IN
    /\ pc = "read"
    /\ "POLLIN" \in revents
    /\ NoRing \/ Len(log[Self]) < RingMax
    /\ sock' = [sock EXCEPT ![Far(Fd)] = Tail(@)]
    /\ log' = [log EXCEPT ![Self] = Append(@, p)]
    /\ SendPeers(skip, <<p>>)
    /\ UNCHANGED <<pc, fds, i, j, revents, gone, stdinOpen, input, user,
                   queue, outs, holds, hears, reset, status, remote, typed, anc>>

\* Mutant: send_peers is given the index into fds.
ReadPeerSkip == pc = "read" /\ sock[Far(Fd)] # <<>> /\ ReadPeerFrom(i)

ReadPeer == pc = "read" /\ sock[Far(Fd)] # <<>> /\ ReadPeerFrom(j)

\* Mutant: EAGAIN marks the peer, too.
ReadDoneGone ==
    /\ pc = "read"
    /\ "POLLIN" \in revents => sock[Far(Fd)] = <<>>
    /\ gone' = ("POLLIN" \in revents)
    /\ pc' = "write"
    /\ UNCHANGED <<data, fds, i, j, revents, stdinOpen, input, user, conns, net>>

\* End of file or an error marks the peer, EAGAIN does not.
ReadDone ==
    /\ pc = "read"
    /\ "POLLIN" \in revents => sock[Far(Fd)] = <<>>
    /\ gone' = ("POLLIN" \in revents /\ (Closed(Far(Fd)) \/ Fd \in reset))
    /\ pc' = "write"
    /\ UNCHANGED <<data, fds, i, j, revents, stdinOpen, input, user, conns, net>>

\* write_stdout fails: cleanup_failure.
StdoutFails ==
    /\ pc = "read"
    /\ "POLLIN" \in revents
    /\ sock[Far(Fd)] # <<>>
    /\ Shutdown

Flushing == ~gone /\ "POLLOUT" \in revents /\ data[j].out # <<>>

WritePeer ==
    /\ pc = "write"
    /\ Flushing
    /\ Fd \notin reset
    /\ Len(sock[Fd]) < SockBuf
    /\ sock' = [sock EXCEPT ![Fd] = Append(@, Head(data[j].out))]
    /\ data' = [data EXCEPT ![j].out = Tail(@)]
    /\ UNCHANGED <<pc, fds, i, j, revents, gone, stdinOpen, input, user,
                   queue, outs, holds, hears, reset, net>>

WriteDone == pc = "write" /\ (Flushing => Fd \in reset \/ Len(sock[Fd]) >= SockBuf)

MustRemove == gone \/ (Flushing /\ Fd \in reset) \/ "POLLHUP" \in revents

KeepPeer ==
    /\ WriteDone
    /\ ~MustRemove
    /\ j' = j + 1
    /\ i' = i + 1
    /\ pc' = "serve"
    /\ revents' = {}
    /\ UNCHANGED <<data, fds, gone, stdinOpen, input, user, conns, net>>

\* Mutant: the slot is overwritten, and len is not decremented.
RemovePeerKeepsLen ==
    /\ WriteDone
    /\ MustRemove
    /\ data' = [data EXCEPT ![j] = data[Len(data)]]
    /\ pc' = "serve"
    /\ revents' = {} /\ gone' = FALSE
    /\ i' = i + 1 /\ j' = j + 1
    /\ UNCHANGED <<fds, stdinOpen, input, user, conns, net>>

\* remove_peer(j): the last peer takes the slot, and neither index moves on.
RemovePeer ==
    /\ WriteDone
    /\ MustRemove
    /\ data' = SubSeq([data EXCEPT ![j] = data[Len(data)]], 1, Len(data) - 1)
    /\ \E k \in 0..Len(sock[Fd]) : sock' = [sock EXCEPT ![Fd] = SubSeq(@, 1, k)]
    /\ pc' = "serve"
    /\ revents' = {} /\ gone' = FALSE
    /\ UNCHANGED <<fds, i, j, stdinOpen, input, user,
                   queue, outs, holds, hears, reset, net>>

-----------------------------------------------------------------------------

LoopNext ==
    \/ Listen \/ StartAlone \/ StartFails
    \/ \E r \in Node : StartDial(r)
    \/ TimesOut \/ Poll
    \/ AcceptPeer \/ AcceptDone
    \/ ReadStdin \/ StdinEof \/ StdinEmpty \/ StdinFails \/ StdinHup
    \/ NextPeer \/ RoundDone
    \/ ReadPeer \/ ReadDone \/ StdoutFails
    \/ WritePeer \/ KeepPeer \/ RemovePeer

OthersNext ==
    \/ UserTypes \/ UserEnds
    \/ \E c \in Other :
          \/ OtherListens(c) \/ OtherStarts(c) \/ OtherDials(c)
          \/ OtherTypes(c) \/ OtherExits(c)
    \/ \E e \in End :
          \/ OtherAccepts(e) \/ OtherWrites(e) \/ OtherReads(e) \/ OtherDrops(e)
          \/ Resets(e)

Next == (LoopNext \/ OthersNext) /\ UNCHANGED plan

Spec == Init /\ [][Next]_vars

\* The process runs, and the peers it has read what they are sent.
FairSpec ==
    /\ Spec
    /\ WF_vars(LoopNext /\ UNCHANGED plan)
    /\ \A e \in End : WF_vars(OtherReads(e) /\ UNCHANGED plan)

-----------------------------------------------------------------------------
(* Properties.                                                             *)

\* The loop, with its arrays, is one process of GossipNet, whoever has dialled
\* it before it dials: what it reads, it prints and passes on once, to every
\* peer but the one it came from, in order; what is typed goes out once; no peer
\* changes or loses its out buffer when another one is removed or accepted.
NetLines == [n \in Node |-> Max({q.pieces[n] : q \in Plans} \cup {0})]
NetPeers == Conns \cup holds
NetBacklog == ToSet(queue) \cup hears
NetStream == [e \in End |-> sock[e] \o (IF e \in Conns THEN OutOf(e) ELSE outs[e])]
NetSent == [e \in End |-> Len(sock[e])]

Net == INSTANCE GossipNet WITH
    Named <- [n \in Node |-> Node], Faults <- {"exit", "cut"}, Lines <- NetLines,
    peers <- NetPeers, backlog <- NetBacklog, stream <- NetStream, sent <- NetSent

IsGossipProcess == Net!Spec

\* A peer whose process still holds the connection is dropped only when the
\* loop judged it by an entry of fds that is not its own: that of a removed
\* peer whose slot it took, or none at all.
StaleSlotOnly ==
    [][\A e \in Conns \ Conns' :
          status'[Self] = "up" /\ ~Closed(Far(e)) => i > Len(fds) \/ fds[i].fd # e]_vars

\* A peer that is judged by an entry of fds is removed only when its connection
\* has been closed by the other process: only that, or the end of Self, stops
\* the text between them (what out1a.txt to out4e.txt show).
LivePeersKept ==
    [][\A e \in Conns \ Conns' :
          status'[Self] = "up" /\ i <= Len(fds) => Closed(Far(e))]_vars

\* Why these hold: the inductive invariant of the proofs, in parts.

NetTypes ==
    /\ status \in [Node -> {"off", "listening", "up", "down"}]
    /\ remote \in [Node -> Node \cup {None}]
    /\ typed \in [Node -> Nat]
    /\ log \in [Node -> Seq(Piece)]
    /\ anc \in [Node -> SUBSET Node]

\* One end has one slot, or one place in one listen queue.  A process that Self
\* has dialled and that has dialled Self has both, for its two connections.
Distinct(d) == \A k, l \in 1..Len(d) : d[k].fd = d[l].fd => k = l

Slots ==
    /\ Distinct(data)
    /\ \A k, l \in 1..Len(queue) : queue[k] = queue[l] => k = l
    /\ ToSet(queue) \cap Conns = {} /\ holds \cap hears = {}
    /\ \A e \in End : Len(sock[e]) <= SockBuf

\* Of the ends that are not Self's, only those in use have text to write.
Buffers == \A e \in End : e \notin holds => outs[e] = <<>>

\* Whose the ends are, and that nobody is connected who has not dialled.
Ends ==
    /\ \A e \in Conns \cup ToSet(queue) : remote[e.by] # None /\ At(e) = Self
    /\ \A e \in holds \cup hears :
          /\ remote[e.by] # None /\ At(e) \in Other
          /\ status[At(e)] = "up" \/ (status[At(e)] = "listening" /\ e \in hears)
    /\ \A e \in ToSet(queue) \cup hears : e.side = "accept"
    /\ \A c \in Other : remote[c] \in {None, Self}

\* Nobody has dialled before it listens, and main is where its status says.
Started ==
    /\ pc = "off" <=> status[Self] = "off"
    /\ pc = "listen" <=> status[Self] = "listening"
    /\ pc = "done" <=> status[Self] = "down"
    /\ \A n \in Node : status[n] \in {"off", "listening"} => remote[n] = None
    /\ pc = "off" => queue = <<>>
    /\ pc \in {"off", "listen", "done"} => data = <<>>
    /\ pc = "done" => queue = <<>>
    /\ \A e \in End : remote[e.by] = None => sock[e] = <<>> /\ outs[e] = <<>>

\* The indices, where they are used.
Indices ==
    /\ i >= 1 /\ j >= 1
    /\ pc \in {"read", "write"} => j <= Len(data)
    /\ pc = "stdin" => stdinOpen

\* What is typed is numbered on; whole lines have gone out, unless standard
\* input has ended.
Typing ==
    /\ \A k \in 1..Len(input) : input[k] = [src |-> Self, no |-> typed[Self] + k]
    /\ \A k \in 1..Len(pipe) : pipe[k] = [src |-> Self, no |-> typed[Self] + Len(input) + k]
    /\ typed[Self] + Len(input) + Len(pipe) <= plan.pieces[Self]
    /\ Len(input) < LineLen
    /\ typed[Self] % LineLen = 0 \/ (input = <<>> /\ ~stdinOpen)

\* What the loop remembers of a connection is true: only a closed end resets
\* one, and a hang-up is a reset.
Judged ==
    /\ \A e \in reset : remote[e.by] # None /\ Closed(Far(e))
    /\ \A k \in 1..Len(fds) :
          "POLLHUP" \in fds[k].revents /\ fds[k].fd \in End => fds[k].fd \in reset
    /\ pc \in {"read", "write"} /\ i <= Len(fds) => revents = fds[i].revents
    /\ pc = "write" /\ gone => Closed(Far(data[j].fd))

IInv == TypeOK /\ NetTypes /\ Slots /\ Buffers /\ Ends /\ Started /\ Indices /\ Typing /\ Judged

\* Each poll round leaves nothing behind for good: a dialling process is
\* accepted, a peer with text is read, a peer's out buffer is written, unless
\* the peer is dropped or the process exits, or a dial closes a ring (there the
\* model stops reading at RingMax).
RoundsServeAll ==
    /\ \A n \in Node :
          (AcceptEnd(n) \in ToSet(queue)) ~> (AcceptEnd(n) \notin ToSet(queue) \/ ~NoRing)
    /\ \A e \in {DialEnd(Self)} \cup {AcceptEnd(n) : n \in Node} :
          /\ (e \in Conns /\ sock[Far(e)] # <<>>)
                ~> (e \notin Conns \/ sock[Far(e)] = <<>> \/ ~NoRing)
          /\ (e \in Conns /\ OutOf(e) # <<>>)
                ~> (e \notin Conns \/ OutOf(e) = <<>> \/ Far(e) \notin holds \/ ~NoRing)

=============================================================================
