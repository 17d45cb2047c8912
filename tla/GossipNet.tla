------------------------------ MODULE GossipNet ------------------------------
(***************************************************************************)
(* A network of gossip processes (Sockets/gossip.c).  Every process listens *)
(* on a port, may then dial one process that listens, and floods each piece *)
(* of text it reads to all its connections but the one it came from.        *)
(*                                                                         *)
(* A process listens before it dials (gossip.c:92, 114), so it may have been*)
(* dialled before: processes that name each other, several in a circle, or  *)
(* one that names its own port close a ring, in which text goes round for   *)
(* ever.  What is said of the order of text is said of networks without one.*)
(*                                                                         *)
(* One action is one pass of a handler of main's loop over one file         *)
(* descriptor: accept, a line from standard input, one read() from a peer,  *)
(* one write() to a peer, remove_peer, and the end of the process.  What    *)
(* happens inside one poll round (the fds and peers arrays, and how they    *)
(* get out of step) is the subject of GossipLoop.                           *)
(*                                                                         *)
(* Text travels in pieces: a piece is what one read() returns of a line.    *)
(* A process that is restarted is another element of Node.                  *)
(***************************************************************************)
EXTENDS Naturals, Sequences

CONSTANTS
    Node,       \* the processes
    None,       \* "no HOSTNAME:PORT argument"
    Named,      \* Named[n]: the processes n's HOSTNAME:PORT argument may name
    LineLen,    \* pieces per line
    Lines,      \* bound: Lines[n] is how many lines are typed at n
    SockBuf,    \* bound: pieces the kernel holds for one direction of a connection
    RingMax,    \* bound: where a ring is closed, pieces in a log before reading stops
    Faults      \* which of "exit" and "cut" may happen in this instance

ASSUME NetAssumption ==
    /\ None \notin Node
    /\ Named \in [Node -> SUBSET Node]
    /\ LineLen \in Nat \ {0}
    /\ Lines \in [Node -> Nat]
    /\ SockBuf \in Nat \ {0}
    /\ RingMax \in Nat
    /\ Faults \subseteq {"exit", "cut"}

\* A connection is named by the process that dialled it: each dials once.  Of
\* its two ends one is the dialler's, the other one that of whom it dialled.
End == [by : Node, side : {"dial", "accept"}]

VARIABLES
    status,     \* status[n]: "off" before main, "listening" up to the dial, "up" in
                \* its loop, "down" after
    remote,     \* remote[n]: the process n dialled, or None
    peers,      \* the ends that stand in their process's peers.data
    backlog,    \* the ends in their process's listen queue, not accepted yet
    stream,     \* stream[e]: pieces queued at e for the other end, oldest first
    sent,       \* sent[e]: how many of them are in the socket, the rest in out
    typed,      \* typed[n]: pieces typed at n so far
    log,        \* log[n]: the pieces n's user has seen, typed or printed
    anc         \* history: n, what it dialled, what that had dialled, ...

vars == <<status, remote, peers, backlog, stream, sent, typed, log, anc>>

Piece == [src : Node, no : Nat]

\* The process whose descriptor the end e is, and the other end of e.
At(e) == IF e.side = "dial" THEN e.by ELSE remote[e.by]
Far(e) == [by |-> e.by, side |-> IF e.side = "dial" THEN "accept" ELSE "dial"]

\* Nobody can be reached from the process it dialled: no dial has closed a ring.
NoRing == \A n \in Node : remote[n] # None => n \notin anc[remote[n]]

PeersOf(n) == {e \in peers : At(e) = n}

\* The next len pieces typed at n, k having been typed before.
Line(n, k, len) == [i \in 1..len |-> [src |-> n, no |-> k + i]]

TypeOK ==
    /\ status \in [Node -> {"off", "listening", "up", "down"}]
    /\ remote \in [Node -> Node \cup {None}]
    /\ peers \subseteq End
    /\ backlog \subseteq End
    /\ stream \in [End -> Seq(Piece)]
    /\ sent \in [End -> Nat]
    /\ typed \in [Node -> Nat]
    /\ log \in [Node -> Seq(Piece)]
    /\ anc \in [Node -> SUBSET Node]

Init ==
    /\ status = [n \in Node |-> "off"]
    /\ remote = [n \in Node |-> None]
    /\ peers = {}
    /\ backlog = {}
    /\ stream = [e \in End |-> <<>>]
    /\ sent = [e \in End |-> 0]
    /\ typed = [n \in Node |-> 0]
    /\ log = [n \in Node |-> <<>>]
    /\ anc = [n \in Node |-> {n}]

-----------------------------------------------------------------------------
(* send_peers: queue the pieces ps at every end in the set to.  s is what  *)
(* the ends have queued before.                                            *)

SendPeers(s, to, ps) == stream' = [e \in End |-> IF e \in to THEN s[e] \o ps ELSE s[e]]

\* The other end of e is closed: whoever holds e will read end of file.
Closed(e) == e \notin peers \cup backlog

-----------------------------------------------------------------------------

\* make_listener: from here on n can be dialled, and reads nothing yet.
Listen(n) ==
    /\ status[n] = "off"
    /\ status' = [status EXCEPT ![n] = "listening"]
    /\ UNCHANGED <<remote, peers, backlog, stream, sent, typed, log, anc>>

\* main up to the loop, without HOSTNAME:PORT: nothing but the listener.
StartAlone(n) ==
    /\ status[n] = "listening"
    /\ status' = [status EXCEPT ![n] = "up"]
    /\ UNCHANGED <<remote, peers, backlog, stream, sent, typed, log, anc>>

\* main up to the loop, with HOSTNAME:PORT: connect_port succeeds once the
\* connection is in the listen queue of r, which listens, has perhaps dialled
\* n itself, or is n.
StartDial(n, r) ==
    /\ status[n] = "listening"
    /\ r \in Named[n]
    /\ status[r] \in {"listening", "up"}
    /\ status' = [status EXCEPT ![n] = "up"]
    /\ remote' = [remote EXCEPT ![n] = r]
    /\ peers' = peers \cup {[by |-> n, side |-> "dial"]}
    /\ backlog' = backlog \cup {[by |-> n, side |-> "accept"]}
    /\ anc' = [m \in Node |-> IF n \in anc[m] THEN anc[m] \cup anc[r] ELSE anc[m]]
    /\ UNCHANGED <<stream, sent, typed, log>>

\* connect_port or add_peer fails: the listener is closed with its queue.
StartFails(n) ==
    /\ "exit" \in Faults
    /\ status[n] = "listening"
    /\ status' = [status EXCEPT ![n] = "down"]
    /\ backlog' = {e \in backlog : At(e) # n}
    /\ UNCHANGED <<remote, peers, stream, sent, typed, log, anc>>

\* accept() and add_peer: the new peer starts with an empty out buffer.
Accept(e) ==
    /\ e \in backlog
    /\ status[At(e)] = "up"
    /\ backlog' = backlog \ {e}
    /\ peers' = peers \cup {e}
    /\ UNCHANGED <<status, remote, stream, sent, typed, log, anc>>

\* Mutant: the line is written to the sockets at once, past the out buffers.
TypeLineDirect(n) ==
    LET ps == Line(n, typed[n], LineLen) IN
    /\ status[n] = "up"
    /\ typed[n] < Lines[n] * LineLen
    /\ stream' = [e \in End |-> IF e \in PeersOf(n)
                                THEN SubSeq(stream[e], 1, sent[e]) \o ps
                                       \o SubSeq(stream[e], sent[e] + 1, Len(stream[e]))
                                ELSE stream[e]]
    /\ sent' = [e \in End |-> IF e \in PeersOf(n) THEN sent[e] + LineLen ELSE sent[e]]
    /\ typed' = [typed EXCEPT ![n] = @ + LineLen]
    /\ log' = [log EXCEPT ![n] = @ \o ps]
    /\ UNCHANGED <<status, remote, peers, backlog, anc>>

\* process_stdin and handle_remaining: a line is queued for every peer at once.
\* A line of fewer than LineLen pieces is what was left at end of file: nothing
\* is typed after it.
TypeLine(n) ==
    /\ status[n] = "up"
    /\ typed[n] < Lines[n] * LineLen
    /\ typed[n] % LineLen = 0
    /\ \E len \in 1..LineLen :
          /\ SendPeers(stream, PeersOf(n), Line(n, typed[n], len))
          /\ typed' = [typed EXCEPT ![n] = @ + len]
          /\ log' = [log EXCEPT ![n] = @ \o Line(n, typed[n], len)]
    /\ UNCHANGED <<status, remote, peers, backlog, sent, anc>>

\* What ReadPiece does, the piece going to the ends in to.
ReadPieceTo(e, to) ==
    LET p == Head(stream[Far(e)]) IN
    /\ SendPeers([stream EXCEPT ![Far(e)] = Tail(@)], to, <<p>>)
    /\ sent' = [sent EXCEPT ![Far(e)] = @ - 1]
    /\ log' = [log EXCEPT ![At(e)] = Append(@, p)]
    /\ UNCHANGED <<status, remote, peers, backlog, typed, anc>>

CanRead(e) ==
    /\ e \in peers
    /\ sent[Far(e)] > 0
    /\ NoRing \/ Len(log[At(e)]) < RingMax

\* Mutant: the connection a piece was read from is not skipped.
ReadPieceEcho(e) == CanRead(e) /\ ReadPieceTo(e, PeersOf(At(e)))

\* Mutant: a peer whose out buffer is in use misses the piece.
ReadPieceBusy(e) ==
    CanRead(e) /\ ReadPieceTo(e, {f \in PeersOf(At(e)) \ {e} : Len(stream[f]) = sent[f]})

\* Mutant: what the peer has queued is taken for what has arrived.
ReadPieceEarly(e) ==
    /\ e \in peers /\ stream[Far(e)] # <<>>
    /\ ReadPieceTo(e, PeersOf(At(e)) \ {e})

\* One read() > 0 at the end e: print the piece, queue it for all the others.
\* Here the piece leaves the far end's stream and enters the others in one step.
ReadPiece(e) == CanRead(e) /\ ReadPieceTo(e, PeersOf(At(e)) \ {e})

\* Mutant: POLLOUT is asked for when more than one piece is left.
WritePieceLate(e) ==
    /\ e \in peers
    /\ sent[e] + 1 < Len(stream[e])
    /\ sent[e] < SockBuf
    /\ sent' = [sent EXCEPT ![e] = @ + 1]
    /\ UNCHANGED <<status, remote, peers, backlog, stream, typed, log, anc>>

\* Mutant: out is cleared when the socket is full (EAGAIN taken for success).
WritePieceLossy(e) ==
    /\ e \in peers
    /\ sent[e] < Len(stream[e])
    /\ IF sent[e] < SockBuf
       THEN sent' = [sent EXCEPT ![e] = @ + 1] /\ UNCHANGED stream
       ELSE stream' = [stream EXCEPT ![e] = SubSeq(@, 1, SockBuf)] /\ UNCHANGED sent
    /\ UNCHANGED <<status, remote, peers, backlog, typed, log, anc>>

\* output_peers: one write() moves the next piece of out into the socket; a
\* full socket (EAGAIN) leaves it in out.
WritePiece(e) ==
    /\ e \in peers
    /\ sent[e] < Len(stream[e])
    /\ sent[e] < SockBuf
    /\ sent' = [sent EXCEPT ![e] = @ + 1]
    /\ UNCHANGED <<status, remote, peers, backlog, stream, typed, log, anc>>

\* What is left of the streams of the ends es when they are closed: the out
\* buffers are freed, and TCP may lose a tail of what is in flight (a reset),
\* keep[e] pieces arriving.
Truncate(es, keep) ==
    /\ stream' = [e \in End |-> IF e \in es THEN SubSeq(stream[e], 1, keep[e]) ELSE stream[e]]
    /\ sent' = [e \in End |-> IF e \in es THEN keep[e] ELSE sent[e]]

\* remove_peer, because the other end is closed or, with "cut", for no fault of
\* its process.
Drop(e) ==
    /\ e \in peers
    /\ Closed(Far(e)) \/ "cut" \in Faults
    /\ peers' = peers \ {e}
    /\ \E k \in 0..sent[e] : Truncate({e}, [f \in {e} |-> k])
    /\ UNCHANGED <<status, remote, backlog, typed, log, anc>>

\* The loop ends (timeout, or the cleanup_failure path): close the listener
\* and free_peers.
Exit(n) ==
    /\ "exit" \in Faults
    /\ status[n] = "up"
    /\ status' = [status EXCEPT ![n] = "down"]
    /\ peers' = peers \ PeersOf(n)
    /\ backlog' = {e \in backlog : At(e) # n}
    /\ \E keep \in [PeersOf(n) -> 0..SockBuf] :
          /\ \A e \in PeersOf(n) : keep[e] <= sent[e]
          /\ Truncate(PeersOf(n), keep)
    /\ UNCHANGED <<remote, typed, log, anc>>

Next ==
    \/ \E n \in Node :
          \/ Listen(n) \/ StartAlone(n) \/ StartFails(n)
          \/ TypeLine(n) \/ Exit(n)
    \/ \E n, r \in Node : StartDial(n, r)
    \/ \E e \in End : Accept(e) \/ ReadPiece(e) \/ WritePiece(e) \/ Drop(e)

Spec == Init /\ [][Next]_vars

\* The start-up comes to its end: connect() succeeds or fails.
Begin(n) == StartAlone(n) \/ StartFails(n) \/ \E r \in Node : StartDial(n, r)

\* poll is level-triggered and every round serves every ready descriptor, so
\* a connection that stays acceptable, readable or writable is served.
Fairness ==
    /\ \A n \in Node : WF_vars(Begin(n))
    /\ \A e \in End : WF_vars(Accept(e)) /\ WF_vars(ReadPiece(e)) /\ WF_vars(WritePiece(e))

FairSpec == Spec /\ Fairness

-----------------------------------------------------------------------------
(* Safety.                                                                 *)

\* No user sees a piece twice, a sender never gets its own text back, and the
\* pieces of one sender are seen in the order they were typed, although they
\* are flooded (send_peers skips only the connection they were read from), as
\* long as no dial closes a ring.
PerSenderOrder ==
    NoRing => \A n \in Node : \A i, j \in 1..Len(log[n]) :
        i < j /\ log[n][i].src = log[n][j].src => log[n][i].no < log[n][j].no

\* Causal order: when s typed q after having seen p, every user that sees both
\* sees p first (out*.txt show a conversation in an order that makes sense),
\* as long as no dial closes a ring.
CausalOrder ==
    NoRing => \A n, s \in Node : \A i, k \in 1..Len(log[s]) :
        i < k /\ log[s][k].src = s =>
            \A a, b \in 1..Len(log[n]) :
                log[n][a] = log[s][i] /\ log[n][b] = log[s][k] => a < b

\* Lines are not torn on a terminal: where two pieces of a line are printed,
\* nothing is printed between them.
Printed(n) == LET Foreign(p) == p.src # n IN SelectSeq(log[n], Foreign)

LinesWhole ==
    \A n \in Node : \A i, j \in 1..Len(Printed(n)) :
        LET p == Printed(n)[i]  q == Printed(n)[j] IN
        p.src = q.src /\ q.no = p.no + 1 /\ p.no % LineLen # 0 => j = i + 1

-----------------------------------------------------------------------------
(* Why these hold: the inductive invariant of the proofs, in parts.        *)

Text(s) == {s[i] : i \in 1..Len(s)}
Ordered(s) == \A i, j \in 1..Len(s) : i < j /\ s[i].src = s[j].src => s[i].no < s[j].no

\* Counters fit their sequences, an end belongs to a connection and is in one
\* place, and a process outside its loop has no peers, has seen nothing and, if
\* it may still dial, has not dialled.
Sizes ==
    /\ \A e \in End : sent[e] <= Len(stream[e])
    /\ \A e \in peers \cup backlog : remote[e.by] # None
    /\ peers \cap backlog = {}
    /\ \A e \in backlog : e.side = "accept"
    /\ \A e \in peers : status[At(e)] = "up"
    /\ \A e \in backlog : status[At(e)] \in {"listening", "up"}
    /\ \A n \in Node : status[n] \in {"off", "listening"} =>
          remote[n] = None /\ typed[n] = 0 /\ log[n] = <<>>
    /\ \A e \in End : remote[e.by] = None => stream[e] = <<>>

\* Without a ring the connections form a forest: anc[n] is the path from n to
\* the root of its tree.
Forest ==
    /\ \A n \in Node : n \in anc[n]
    /\ \A n \in Node :
          anc[n] = {n} \cup (IF remote[n] = None THEN {} ELSE anc[remote[n]])
    /\ \A n \in Node : \A m \in anc[n] : anc[m] \subseteq anc[n]
    /\ \A n \in Node : \A x, y \in anc[n] : remote[x] = remote[y] /\ remote[x] # None => x = y
    /\ \A n \in Node : \A x, y \in anc[n] : remote[x] = None => x \in anc[y]

\* What is sent from the end e leads away from s: up the path from s to its
\* root, or down where that path does not go.
Away(e, s) == IF e.side = "dial" THEN e.by \in anc[s] ELSE e.by \notin anc[s]

\* n and s are in one tree.
Joined(n, s) == \E x \in Node : x \in anc[n] /\ x \in anc[s]

\* Text travels away from its sender only, so each process has one connection
\* at which it can arrive; a process has what it passes on, and what has
\* passed a connection is known at both ends; what is under way is newer than
\* what has arrived; and text stays in the tree of its sender.
Flow ==
    /\ \A e \in End : \A p \in Text(stream[e]) : Away(e, p.src) /\ p \in Text(log[At(e)])
    /\ \A e \in End : remote[e.by] # None =>
          \A q \in Text(log[At(Far(e))]) : Away(e, q.src) => q \in Text(log[At(e)])
    /\ \A n \in Node : \A q \in Text(log[n]) : q.no > 0 /\ q.no <= typed[q.src] /\ Joined(n, q.src)
    /\ \A e \in End : \A p \in Text(stream[e]) : \A q \in Text(log[At(Far(e))]) :
          p.src = q.src => q.no < p.no
    /\ \A e \in End : Ordered(stream[e])
    /\ \A n \in Node : Ordered(log[n])

Routing == TypeOK /\ Sizes /\ (NoRing => Forest /\ Flow)

\* In t, p stands before q wherever both stand in it.
Before(t, p, q) == \A i, j \in 1..Len(t) : t[i] = p /\ t[j] = q => i < j

\* Whatever a process has seen of another came on a connection.
Arrived ==
    \A n \in Node : \A q \in Text(log[n]) : q.src # n =>
        \E e \in End : remote[e.by] # None /\ At(Far(e)) = n /\ Away(e, q.src)

\* If s typed q after it had seen p, then they are in this order wherever both
\* are, p is not under way to a process that has q, and whoever has q and lies
\* between the sender of p and s has p, too: it was p's way to s.
Causal ==
    \A s \in Node : \A p, q \in Text(log[s]) :
        q.src = s /\ Before(log[s], p, q) =>
            /\ \A n \in Node : Before(log[n], p, q)
            /\ \A e \in End :
                  /\ Before(stream[e], p, q)
                  /\ remote[e.by] # None /\ q \in Text(log[At(Far(e))]) =>
                        /\ p \notin Text(stream[e])
                        /\ Away(e, s) /\ Away(Far(e), p.src) => p \in Text(log[At(Far(e))])

-----------------------------------------------------------------------------

\* The numbers of the pieces of s in t.
Nos(t, s) == {t[i].no : i \in {k \in 1..Len(t) : t[k].src = s}}

\* What the process at the far end of e has seen of s, and what is on its way
\* there from e.
Due(e, s) == Nos(log[At(Far(e))], s) \cup Nos(stream[e], s)

\* Relays leave nothing out, even when others exit with text in their out
\* buffers: on a connection that leads away from s, what its far end has seen of
\* s and what is on its way there are consecutive pieces, up to the newest that
\* the near end has seen, unless it has dropped the connection.  A tail may be
\* lost, never a piece in the middle, as long as no dial closes a ring.
NoHoles ==
    NoRing => \A s \in Node : \A e \in End : remote[e.by] # None /\ Away(e, s) =>
        /\ \A a, b \in Due(e, s) : a..b \subseteq Due(e, s)
        /\ Due(e, s) # {} /\ e \in peers =>
              \A k \in Nos(log[At(e)], s) : \E x \in Due(e, s) : k <= x

\* Nobody misses his own text, and nothing goes to a process before it has been
\* accepted: what it gets then is whole from there on.
Whole ==
    /\ \A n \in Node : Nos(log[n], n) = 1..typed[n]
    /\ \A e \in backlog : \A s \in Node : Away(e, s) => Due(e, s) = {}

IInv == Routing /\ (NoRing => Arrived /\ Causal /\ Whole) /\ NoHoles

-----------------------------------------------------------------------------
(* Liveness.                                                               *)

\* Both ends of the connection of e are still open.
Linked(e) == e \in peers /\ ~Closed(Far(e))
Intact == \A n \in Node : remote[n] # None => Linked([by |-> n, side |-> "dial"])

Seen(n, p) == \E i \in 1..Len(log[n]) : log[n][i] = p

\* A user who has seen one piece of a sender sees the next one that is typed
\* too, through any number of relays, unless some connection is lost or a dial
\* closes a ring (there the model stops reading at RingMax).
NoStall ==
    \A a \in Node : \A b \in Node \ {a} : \A k \in 1..(Lines[a] * LineLen - 1) :
        (Seen(b, [src |-> a, no |-> k]) /\ typed[a] > k)
            ~> (Seen(b, [src |-> a, no |-> k + 1]) \/ ~Intact \/ ~NoRing)

\* What is queued for a peer is written and read, to the last piece, unless one
\* of the two closes the connection (that nothing else becomes of it is NoHoles)
\* or a dial closes a ring, in which text goes round for ever.
HopDelivers ==
    \A e \in End : (stream[e] # <<>>) ~> (stream[e] = <<>> \/ ~Linked(e) \/ ~NoRing)

=============================================================================
