--------------------------- MODULE GossipNetProofs ---------------------------
(***************************************************************************)
(* Theorems about GossipNet, for every number of processes, every bound and *)
(* every choice of faults: what is delivered, then the order of text from   *)
(* several senders, then completeness.                                      *)
(***************************************************************************)
EXTENDS GossipNet, SequenceTheorems, TLAPS

-----------------------------------------------------------------------------
(* Sequences of pieces.                                                    *)

\* The text of a line: pieces of its sender, counted on from k.
LEMMA LineText ==
    ASSUME NEW n \in Node, NEW k \in Nat, NEW len \in Nat
    PROVE  /\ Line(n, k, len) \in Seq(Piece)
           /\ Len(Line(n, k, len)) = len
           /\ \A q \in Text(Line(n, k, len)) : q.src = n /\ q.no > k /\ q.no <= k + len
           /\ Ordered(Line(n, k, len))
  <1> DEFINE l == Line(n, k, len)
  <1>1. /\ l \in Seq(Piece) /\ Len(l) = len
        /\ \A x \in 1..len : l[x] = [src |-> n, no |-> k + x]
    BY DEF Line, Piece
  <1> HIDE DEF l
  <1>2. \A x \in 1..Len(l) : l[x].src = n /\ l[x].no = k + x
    BY <1>1
  <1>3. \A q \in Text(l) : q.src = n /\ q.no > k /\ q.no <= k + len
    BY <1>1, <1>2 DEF Text
  <1>4. Ordered(l)
    BY <1>1, <1>2 DEF Ordered
  <1> QED
    BY <1>1, <1>3, <1>4 DEF l

\* The elements of a sequence of pieces are pieces.
LEMMA TextType ==
    ASSUME NEW s \in Seq(Piece)
    PROVE  Text(s) \subseteq Piece
  BY DEF Text

\* Appending one piece that is newer than its sender's others keeps the order.
LEMMA AppendText ==
    ASSUME NEW s \in Seq(Piece), NEW p \in Piece
    PROVE  /\ Append(s, p) \in Seq(Piece)
           /\ Text(Append(s, p)) = Text(s) \cup {p}
           /\ Ordered(s) /\ (\A q \in Text(s) : q.src = p.src => q.no < p.no)
                => Ordered(Append(s, p))
  <1> DEFINE t == Append(s, p)
  <1>1. /\ t \in Seq(Piece) /\ Len(t) = Len(s) + 1
        /\ \A i \in 1..Len(s) : t[i] = s[i]
        /\ t[Len(s) + 1] = p
    OBVIOUS
  <1> HIDE DEF t
  <1>2. Text(t) = Text(s) \cup {p}
    <2>1. Text(t) \subseteq Text(s) \cup {p}
      <3> SUFFICES ASSUME NEW i \in 1..Len(t) PROVE t[i] \in Text(s) \cup {p}
        BY DEF Text
      <3>1. CASE i \in 1..Len(s)
        BY <1>1, <3>1 DEF Text
      <3>2. CASE i = Len(s) + 1
        BY <1>1, <3>2
      <3> QED
        BY <1>1, <3>1, <3>2
    <2>2. \A i \in 1..Len(s) : s[i] \in Text(t)
      BY <1>1 DEF Text
    <2>3. p \in Text(t)
      BY <1>1 DEF Text
    <2> QED
      BY <2>1, <2>2, <2>3 DEF Text
  <1>3. ASSUME Ordered(s), \A q \in Text(s) : q.src = p.src => q.no < p.no
        PROVE  Ordered(t)
    <2> SUFFICES ASSUME NEW i \in 1..Len(t), NEW j \in 1..Len(t), i < j, t[i].src = t[j].src
                 PROVE  t[i].no < t[j].no
      BY DEF Ordered
    <2>1. i \in 1..Len(s) /\ t[i] = s[i] /\ s[i] \in Text(s)
      BY <1>1 DEF Text
    <2>2. CASE j \in 1..Len(s)
      BY <1>1, <1>3, <2>1, <2>2 DEF Ordered
    <2>3. CASE j = Len(s) + 1
      BY <1>1, <1>3, <2>1, <2>3
    <2> QED
      BY <1>1, <2>2, <2>3
  <1> QED
    BY <1>1, <1>2, <1>3 DEF t

\* Appending text that is newer than its sender's other pieces, likewise.
LEMMA ConcatText ==
    ASSUME NEW s \in Seq(Piece), NEW l \in Seq(Piece), Ordered(s), Ordered(l),
           \A p \in Text(s), q \in Text(l) : p.src = q.src => p.no < q.no
    PROVE  /\ s \o l \in Seq(Piece)
           /\ Text(s \o l) = Text(s) \cup Text(l)
           /\ Ordered(s \o l)
  <1> DEFINE t == s \o l
  <1>1. /\ t \in Seq(Piece) /\ Len(t) = Len(s) + Len(l)
        /\ \A i \in 1..Len(s) : t[i] = s[i]
        /\ \A i \in 1..Len(t) : i \notin 1..Len(s) => i - Len(s) \in 1..Len(l) /\ t[i] = l[i - Len(s)]
        /\ \A x \in 1..Len(l) : Len(s) + x \in 1..Len(t) /\ t[Len(s) + x] = l[x]
    OBVIOUS
  <1> HIDE DEF t
  <1>2. Text(t) = Text(s) \cup Text(l)
    <2>1. \A i \in 1..Len(t) : t[i] \in Text(s) \cup Text(l)
      BY <1>1 DEF Text
    <2>2. \A i \in 1..Len(s) : s[i] \in Text(t)
      BY <1>1 DEF Text
    <2>3. \A x \in 1..Len(l) : l[x] \in Text(t)
      BY <1>1 DEF Text
    <2> QED
      BY <2>1, <2>2, <2>3 DEF Text
  <1>3. ASSUME NEW i \in 1..Len(t), NEW j \in 1..Len(t), i < j, t[i].src = t[j].src
        PROVE  t[i].no < t[j].no
    <2>1. CASE j \in 1..Len(s)
      <3>1. i \in 1..Len(s) /\ t[i] = s[i] /\ t[j] = s[j]
        BY <1>1, <1>3, <2>1
      <3> QED
        BY <1>3, <2>1, <3>1 DEF Ordered
    <2>2. CASE j \notin 1..Len(s) /\ i \in 1..Len(s)
      <3>1. t[j] \in Text(l) /\ t[i] \in Text(s)
        BY <1>1, <2>2 DEF Text
      <3> QED
        BY <1>3, <3>1
    <2>3. CASE i \notin 1..Len(s)
      <3>1. j \notin 1..Len(s)
        BY <1>3, <2>3
      <3>2. /\ i - Len(s) \in 1..Len(l) /\ t[i] = l[i - Len(s)]
            /\ j - Len(s) \in 1..Len(l) /\ t[j] = l[j - Len(s)]
        BY <1>1, <2>3, <3>1
      <3>3. i - Len(s) < j - Len(s)
        BY <1>3
      <3> QED
        BY <1>3, <3>2, <3>3 DEF Ordered
    <2> QED
      BY <2>1, <2>2, <2>3
  <1>4. Ordered(t)
    BY <1>3 DEF Ordered
  <1> QED
    BY <1>1, <1>2, <1>4 DEF t

\* Taking the oldest piece leaves newer ones of the same sender.
LEMMA TailText ==
    ASSUME NEW s \in Seq(Piece), s # <<>>
    PROVE  /\ Head(s) \in Piece /\ Head(s) \in Text(s)
           /\ Tail(s) \in Seq(Piece) /\ Len(Tail(s)) = Len(s) - 1
           /\ Text(Tail(s)) \subseteq Text(s)
           /\ Ordered(s) => /\ Ordered(Tail(s))
                            /\ \A q \in Text(Tail(s)) : q.src = Head(s).src => Head(s).no < q.no
  <1> DEFINE t == Tail(s)
  <1>1. /\ t \in Seq(Piece) /\ Len(t) = Len(s) - 1
        /\ \A i \in 1..Len(t) : i + 1 \in 1..Len(s) /\ t[i] = s[i + 1]
        /\ Head(s) = s[1] /\ 1 \in 1..Len(s)
    OBVIOUS
  <1> HIDE DEF t
  <1>2. Head(s) \in Piece /\ Head(s) \in Text(s)
    BY <1>1 DEF Text
  <1>3. Text(t) \subseteq Text(s)
    BY <1>1 DEF Text
  <1>4. ASSUME Ordered(s)
        PROVE  Ordered(t) /\ \A q \in Text(t) : q.src = Head(s).src => Head(s).no < q.no
    <2>1. Ordered(t)
      BY <1>1, <1>4 DEF Ordered
    <2>2. \A i \in 1..Len(t) : t[i].src = s[1].src => s[1].no < t[i].no
      BY <1>1, <1>4 DEF Ordered
    <2> QED
      BY <1>1, <2>1, <2>2 DEF Text
  <1> QED
    BY <1>1, <1>2, <1>3, <1>4 DEF t

\* A prefix keeps the order and has no text of its own.
LEMMA PrefixText ==
    ASSUME NEW s \in Seq(Piece), NEW k \in Nat, k <= Len(s)
    PROVE  /\ SubSeq(s, 1, k) \in Seq(Piece) /\ Len(SubSeq(s, 1, k)) = k
           /\ Text(SubSeq(s, 1, k)) \subseteq Text(s)
           /\ Ordered(s) => Ordered(SubSeq(s, 1, k))
  <1> DEFINE t == SubSeq(s, 1, k)
  <1>1. /\ t \in Seq(Piece) /\ Len(t) = k
        /\ \A i \in 1..k : i \in 1..Len(s) /\ t[i] = s[i]
    OBVIOUS
  <1> HIDE DEF t
  <1>2. Text(t) \subseteq Text(s)
    BY <1>1 DEF Text
  <1>3. Ordered(s) => Ordered(t)
    BY <1>1 DEF Ordered
  <1> QED
    BY <1>1, <1>2, <1>3 DEF t

-----------------------------------------------------------------------------
(* Connections and their ends.                                             *)

\* An end has a far end, whose far end it is; text leads away from a process at
\* one of the two.
LEMMA EndFacts ==
    ASSUME NEW e \in End
    PROVE  /\ e.by \in Node
           /\ Far(e) \in End /\ Far(Far(e)) = e /\ Far(e) # e /\ Far(e).by = e.by
           /\ e.side \in {"dial", "accept"}
           /\ Far(e).side = IF e.side = "dial" THEN "accept" ELSE "dial"
           /\ \A s : Away(Far(e), s) <=> ~Away(e, s)
           /\ \A f \in End : f.by = e.by => f = e \/ f = Far(e)
  <1>1. \A x \in Node : \A y \in {"dial", "accept"} :
            [by |-> x, side |-> y] \in End /\ [by |-> x, side |-> y].by = x
                /\ [by |-> x, side |-> y].side = y
    BY DEF End
  <1>2. /\ e.by \in Node /\ e.side \in {"dial", "accept"}
        /\ e = [by |-> e.by, side |-> e.side]
    BY DEF End
  <1>3. \A f \in End : f.by = e.by => f = e \/ f = Far(e)
    <2> SUFFICES ASSUME NEW f \in End, f.by = e.by PROVE f = e \/ f = Far(e)
      OBVIOUS
    <2>1. f.side \in {"dial", "accept"} /\ f = [by |-> f.by, side |-> f.side]
      BY DEF End
    <2> QED
      BY <1>2, <2>1 DEF Far
  <1>4. /\ Far(e) \in End /\ Far(Far(e)) = e /\ Far(e) # e /\ Far(e).by = e.by
        /\ Far(e).side = IF e.side = "dial" THEN "accept" ELSE "dial"
    BY <1>1, <1>2 DEF Far
  <1> QED
    BY <1>2, <1>3, <1>4 DEF Away

\* Where the two ends of a connection are.
LEMMA AtFacts ==
    ASSUME TypeOK, NEW e \in End, remote[e.by] # None
    PROVE  /\ At(e) \in Node /\ At(Far(e)) \in Node
           /\ e.side = "dial" => At(e) = e.by /\ At(Far(e)) = remote[e.by]
           /\ e.side # "dial" => At(e) = remote[e.by] /\ At(Far(e)) = e.by
  BY EndFacts DEF At, TypeOK

\* An end in peers or in a queue belongs to a connection.
LEMMA PeerFacts ==
    ASSUME TypeOK, Sizes, NEW e \in peers \cup backlog
    PROVE  e \in End /\ remote[e.by] # None /\ At(e) \in Node /\ At(Far(e)) \in Node
  <1>1. e \in End /\ remote[e.by] # None
    BY DEF TypeOK, Sizes
  <1> QED
    BY <1>1, AtFacts

\* So does an end that has something to send.
LEMMA StreamFacts ==
    ASSUME TypeOK, Sizes, NEW e \in End, stream[e] # <<>>
    PROVE  remote[e.by] # None /\ At(e) \in Node /\ At(Far(e)) \in Node
  <1>1. remote[e.by] # None
    BY DEF Sizes
  <1> QED
    BY <1>1, AtFacts

-----------------------------------------------------------------------------
(* What the actions do to streams and logs, end by end.                    *)

\* Queuing a typed line: every peer's stream grows by it, and the log.
LEMMA TypeLineEffect ==
    ASSUME TypeOK, NEW n \in Node, TypeLine(n)
    PROVE  \E len \in 1..LineLen :
              /\ typed' = [typed EXCEPT ![n] = @ + len]
              /\ log' \in [Node -> Seq(Piece)]
              /\ log'[n] = log[n] \o Line(n, typed[n], len)
              /\ \A a \in Node \ {n} : log'[a] = log[a]
              /\ stream' \in [End -> Seq(Piece)]
              /\ \A e \in PeersOf(n) : stream'[e] = stream[e] \o Line(n, typed[n], len)
              /\ \A e \in End : e \notin PeersOf(n) => stream'[e] = stream[e]
  <1>1. PICK len \in 1..LineLen :
           /\ SendPeers(stream, PeersOf(n), Line(n, typed[n], len))
           /\ typed' = [typed EXCEPT ![n] = @ + len]
           /\ log' = [log EXCEPT ![n] = @ \o Line(n, typed[n], len)]
    BY DEF TypeLine
  <1> DEFINE l == Line(n, typed[n], len)
  <1>2. l \in Seq(Piece)
    BY NetAssumption, LineText DEF TypeOK
  <1> HIDE DEF l
  <1>3. /\ log' = [log EXCEPT ![n] = log[n] \o l]
        /\ stream' = [e \in End |-> IF e \in PeersOf(n) THEN stream[e] \o l ELSE stream[e]]
    BY <1>1 DEF SendPeers, l
  <1>4. log[n] \o l \in Seq(Piece) /\ \A e \in End : stream[e] \o l \in Seq(Piece)
    BY <1>2 DEF TypeOK
  <1>5. /\ log' \in [Node -> Seq(Piece)]
        /\ log'[n] = log[n] \o l
        /\ \A a \in Node \ {n} : log'[a] = log[a]
    BY <1>3, <1>4 DEF TypeOK
  <1>6. stream' \in [End -> Seq(Piece)]
    BY <1>3, <1>4 DEF TypeOK
  <1>7. PeersOf(n) \subseteq End
    BY DEF PeersOf, TypeOK
  <1>8. /\ \A e \in PeersOf(n) : stream'[e] = stream[e] \o l
        /\ \A e \in End : e \notin PeersOf(n) => stream'[e] = stream[e]
    BY <1>3, <1>7
  <1> QED
    BY <1>1, <1>5, <1>6, <1>8 DEF l

\* The end e takes the piece p from its far end d and passes it on to the ends to.
Relays(e, d, n, to, p) ==
    /\ d = Far(e) /\ n = At(e) /\ to = PeersOf(n) \ {e} /\ p = Head(stream[d])
    /\ e \in peers /\ At(Far(d)) = n /\ sent[d] > 0
    /\ remote[e.by] # None /\ remote[d.by] # None
    /\ stream[d] # <<>>
    /\ log' \in [Node -> Seq(Piece)]
    /\ log'[n] = Append(log[n], p)
    /\ \A a \in Node \ {n} : log'[a] = log[a]
    /\ stream' \in [End -> Seq(Piece)]
    /\ d \notin to => stream'[d] = Tail(stream[d])
    /\ d \in to => stream'[d] = Append(Tail(stream[d]), p)
    /\ \A f \in to : f # d => stream'[f] = Append(stream[f], p)
    /\ \A f \in End : f # d /\ f \notin to => stream'[f] = stream[f]

\* Relaying a piece: it leaves the far end's stream and enters those of the other
\* peers.
LEMMA ReadPieceEffect ==
    ASSUME TypeOK, Sizes, NEW e \in End, ReadPiece(e)
    PROVE  \E d \in End, n \in Node, to \in SUBSET End, p \in Piece : Relays(e, d, n, to, p)
  <1> DEFINE d == Far(e)
             n == At(e)
             to == PeersOf(n) \ {e}
             p == Head(stream[d])
  <1>0. d = Far(e) /\ n = At(e) /\ to = PeersOf(n) \ {e} /\ p = Head(stream[d])
    OBVIOUS
  <1> HIDE DEF d, n, to, p
  <1>1. e \in peers /\ sent[d] > 0 /\ ReadPieceTo(e, to)
    BY <1>0 DEF ReadPiece, CanRead
  <1>2. /\ n \in Node /\ d \in End /\ At(Far(d)) = n
        /\ remote[e.by] # None /\ remote[d.by] # None
    BY <1>0, <1>1, PeerFacts, EndFacts
  <1>3. stream[d] \in Seq(Piece) /\ stream[d] # <<>>
    BY <1>1, <1>2 DEF TypeOK, Sizes
  <1>4. p \in Piece /\ Tail(stream[d]) \in Seq(Piece)
    BY <1>0, <1>3, TailText
  <1>5. to \subseteq End
    BY <1>0 DEF PeersOf, TypeOK
  <1> DEFINE base == [stream EXCEPT ![d] = Tail(stream[d])]
  <1>6. /\ stream' = [f \in End |-> IF f \in to THEN base[f] \o <<p>> ELSE base[f]]
        /\ log' = [log EXCEPT ![n] = Append(@, p)]
    BY <1>0, <1>1 DEF ReadPieceTo, SendPeers
  <1>7. /\ base \in [End -> Seq(Piece)] /\ base[d] = Tail(stream[d])
        /\ \A f \in End : f # d => base[f] = stream[f]
    BY <1>2, <1>4 DEF TypeOK
  <1> HIDE DEF base
  <1>8. \A t \in Seq(Piece) : t \o <<p>> = Append(t, p) /\ Append(t, p) \in Seq(Piece)
    BY <1>4
  <1>9. stream' = [f \in End |-> IF f \in to THEN Append(base[f], p) ELSE base[f]]
    BY <1>6, <1>7, <1>8
  <1>10. stream' \in [End -> Seq(Piece)]
    BY <1>7, <1>8, <1>9
  <1>11. /\ log' \in [Node -> Seq(Piece)]
         /\ log'[n] = Append(log[n], p)
         /\ \A a \in Node \ {n} : log'[a] = log[a]
    BY <1>2, <1>4, <1>6 DEF TypeOK
  <1>12. /\ \A f \in to : stream'[f] = Append(base[f], p)
         /\ \A f \in End : f \notin to => stream'[f] = base[f]
    BY <1>5, <1>9
  <1>13. Relays(e, d, n, to, p)
    BY <1>0, <1>1, <1>2, <1>3, <1>4, <1>5, <1>7, <1>10, <1>11, <1>12 DEF Relays
  <1> QED
    BY <1>2, <1>4, <1>5, <1>13

\* Closing connections cuts streams off at some piece and changes nothing else.
LEMMA TruncateEffect ==
    ASSUME TypeOK, Sizes, NEW es \in SUBSET End, NEW keep,
           \A e \in es : keep[e] \in Nat /\ keep[e] <= sent[e],
           Truncate(es, keep)
    PROVE  /\ stream' \in [End -> Seq(Piece)]
           /\ sent' \in [End -> Nat]
           /\ \A e \in End :
                 /\ sent'[e] <= Len(stream'[e])
                 /\ \E k \in Nat : k <= Len(stream[e]) /\ stream'[e] = SubSeq(stream[e], 1, k)
                 /\ e \notin es => stream'[e] = stream[e]
  <1>1. \A e \in es : /\ e \in End /\ stream[e] \in Seq(Piece)
                      /\ keep[e] \in Nat /\ keep[e] <= Len(stream[e])
    BY DEF TypeOK, Sizes
  <1>2. \A e \in es : SubSeq(stream[e], 1, keep[e]) \in Seq(Piece)
                         /\ Len(SubSeq(stream[e], 1, keep[e])) = keep[e]
    BY <1>1, PrefixText
  <1>3. /\ stream' = [e \in End |-> IF e \in es THEN SubSeq(stream[e], 1, keep[e]) ELSE stream[e]]
        /\ sent' = [e \in End |-> IF e \in es THEN keep[e] ELSE sent[e]]
    BY DEF Truncate
  <1>4. stream' \in [End -> Seq(Piece)]
    BY <1>2, <1>3 DEF TypeOK
  <1>5. sent' \in [End -> Nat]
    BY <1>1, <1>3 DEF TypeOK
  <1>6. ASSUME NEW e \in End
        PROVE  /\ sent'[e] <= Len(stream'[e])
               /\ \E k \in Nat : k <= Len(stream[e]) /\ stream'[e] = SubSeq(stream[e], 1, k)
               /\ e \notin es => stream'[e] = stream[e]
    <2>1. CASE e \in es
      <3>1. /\ stream'[e] = SubSeq(stream[e], 1, keep[e]) /\ sent'[e] = keep[e]
            /\ keep[e] \in Nat /\ keep[e] <= Len(stream[e])
            /\ Len(SubSeq(stream[e], 1, keep[e])) = keep[e]
        BY <1>1, <1>2, <1>3, <2>1
      <3>2. sent'[e] <= Len(stream'[e])
        BY <3>1
      <3> QED
        BY <2>1, <3>1, <3>2
    <2>2. CASE e \notin es
      <3>1. stream'[e] = stream[e] /\ sent'[e] = sent[e]
        BY <1>3, <2>2
      <3>2. stream[e] \in Seq(Piece)
        BY DEF TypeOK
      <3>3. Len(stream[e]) \in Nat /\ SubSeq(stream[e], 1, Len(stream[e])) = stream[e]
        BY <3>2
      <3> QED
        BY <2>2, <3>1, <3>3 DEF Sizes
    <2> QED
      BY <2>1, <2>2
  <1> QED
    BY <1>4, <1>5, <1>6

\* Both ways in which a process closes connections.
LEMMA CloseEffect ==
    ASSUME TypeOK, Sizes, \/ \E e \in End : Drop(e)
                          \/ \E n \in Node : Exit(n)
    PROVE  /\ stream' \in [End -> Seq(Piece)]
           /\ sent' \in [End -> Nat]
           /\ \A e \in End :
                 /\ sent'[e] <= Len(stream'[e])
                 /\ \E k \in Nat : k <= Len(stream[e]) /\ stream'[e] = SubSeq(stream[e], 1, k)
                 /\ e \in peers' => stream'[e] = stream[e]
           /\ peers' \subseteq peers /\ backlog' \subseteq backlog
           /\ UNCHANGED <<remote, typed, log, anc>>
  <1>1. CASE \E e \in End : Drop(e)
    <2>1. PICK e \in End : Drop(e)
      BY <1>1
    <2>2. PICK k \in 0..sent[e] : Truncate({e}, [f \in {e} |-> k])
      BY <2>1 DEF Drop
    <2>3. sent[e] \in Nat
      BY DEF TypeOK
    <2>4. \A f \in {e} : [g \in {e} |-> k][f] \in Nat /\ [g \in {e} |-> k][f] <= sent[f]
      BY <2>2, <2>3
    <2>5. {e} \in SUBSET End
      OBVIOUS
    <2>6. /\ peers' = peers \ {e} /\ backlog' = backlog
          /\ UNCHANGED <<remote, typed, log, anc>>
      BY <2>1 DEF Drop
    <2> QED
      BY <2>2, <2>4, <2>5, <2>6, TruncateEffect
  <1>2. CASE \E n \in Node : Exit(n)
    <2>1. PICK n \in Node : Exit(n)
      BY <1>2
    <2>2. PICK keep \in [PeersOf(n) -> 0..SockBuf] :
             /\ \A e \in PeersOf(n) : keep[e] <= sent[e]
             /\ Truncate(PeersOf(n), keep)
      BY <2>1 DEF Exit
    <2>3. PeersOf(n) \in SUBSET End
      BY DEF PeersOf, TypeOK
    <2>4. \A e \in PeersOf(n) : keep[e] \in Nat /\ keep[e] <= sent[e]
      BY <2>2, NetAssumption
    <2>5. /\ peers' = peers \ PeersOf(n) /\ backlog' \subseteq backlog
          /\ UNCHANGED <<remote, typed, log, anc>>
      BY <2>1 DEF Exit
    <2> QED
      BY <2>2, <2>3, <2>4, <2>5, TruncateEffect
  <1> QED
    BY <1>1, <1>2

-----------------------------------------------------------------------------
(* Type correctness.                                                       *)

\* Types, sizes of streams, and which ends there are, are inductive together: a
\* piece may be taken from a stream only because it is there.
LEMMA TypeStep ==
    ASSUME TypeOK, Sizes, [Next]_vars
    PROVE  TypeOK' /\ Sizes'
  <1>1. CASE UNCHANGED vars
    <2>1. \A e : At(e)' = At(e)
      BY <1>1 DEF vars, At
    <2> QED
      BY <1>1, <2>1 DEF vars, TypeOK, Sizes
  <1>0. ASSUME UNCHANGED remote
        PROVE  \A e : At(e)' = At(e)
    BY <1>0 DEF At
  <1>2. ASSUME NEW n \in Node, Listen(n) \/ StartAlone(n)
        PROVE  TypeOK' /\ Sizes'
    <2>1. /\ status' = [status EXCEPT ![n] = IF Listen(n) THEN "listening" ELSE "up"]
          /\ status[n] \in {"off", "listening"}
          /\ UNCHANGED <<remote, peers, backlog, stream, sent, typed, log, anc>>
      BY <1>2 DEF Listen, StartAlone
    <2>2. TypeOK'
      BY <2>1 DEF TypeOK
    <2>3. \A e : At(e)' = At(e)
      BY <1>0, <2>1
    <2>4. \A m \in Node : /\ status[m] = "up" => status'[m] = "up"
                          /\ status[m] \in {"listening", "up"} => status'[m] \in {"listening", "up"}
                          /\ status'[m] \in {"off", "listening"} => status[m] \in {"off", "listening"}
      <3>1. CASE Listen(n)
        BY <2>1, <3>1 DEF TypeOK, Listen
      <3>2. CASE ~Listen(n)
        BY <1>2, <2>1, <3>2 DEF TypeOK, StartAlone
      <3> QED
        BY <3>1, <3>2
    <2>5. \A e \in peers \cup backlog : At(e) \in Node
      BY PeerFacts
    <2>6. Sizes'
      BY <2>1, <2>3, <2>4, <2>5 DEF Sizes
    <2> QED
      BY <2>2, <2>6
  <1>3. ASSUME NEW n \in Node, NEW r \in Node, StartDial(n, r)
        PROVE  TypeOK' /\ Sizes'
    <2> DEFINE d == [by |-> n, side |-> "dial"]
               a == [by |-> n, side |-> "accept"]
    <2>1. d \in End /\ a \in End /\ d # a /\ d.by = n /\ a.by = n /\ d.side = "dial" /\ a.side = "accept"
      BY DEF End
    <2> HIDE DEF d, a
    <2>2. /\ status[n] = "listening" /\ status[r] \in {"listening", "up"}
          /\ status' = [status EXCEPT ![n] = "up"]
          /\ remote' = [remote EXCEPT ![n] = r]
          /\ peers' = peers \cup {d} /\ backlog' = backlog \cup {a}
          /\ anc' = [m \in Node |-> IF n \in anc[m] THEN anc[m] \cup anc[r] ELSE anc[m]]
          /\ UNCHANGED <<stream, sent, typed, log>>
      BY <1>3 DEF StartDial, d, a
    <2>3. TypeOK'
      BY <2>1, <2>2 DEF TypeOK
    <2>4. remote[n] = None /\ None \notin Node
      BY <2>2, NetAssumption DEF Sizes
    <2>5. \A e \in End : e.by # n => remote'[e.by] = remote[e.by] /\ At(e)' = At(e)
      BY <2>2, EndFacts DEF TypeOK, At
    <2>6. \A e \in peers \cup backlog : e \in End /\ e.by # n /\ At(e) \in Node
      BY <2>4, PeerFacts
    <2>7. remote'[n] = r /\ At(d)' = n /\ At(a)' = r
      BY <2>1, <2>2 DEF At, TypeOK
    <2>8. \A m \in Node : /\ status[m] = "up" => status'[m] = "up"
                          /\ status[m] \in {"listening", "up"} => status'[m] \in {"listening", "up"}
                          /\ status'[m] \in {"off", "listening"} => m # n /\ status'[m] = status[m]
      BY <2>2 DEF TypeOK
    <2>9. status'[n] = "up"
      BY <2>2 DEF TypeOK
    <2>10. \A e \in peers' \cup backlog' : remote'[e.by] # None
      BY <2>1, <2>2, <2>4, <2>5, <2>6, <2>7 DEF Sizes
    <2>11. peers' \cap backlog' = {} /\ \A e \in backlog' : e.side = "accept"
      BY <2>1, <2>2, <2>6 DEF Sizes
    <2>12. \A e \in peers' : status'[At(e)'] = "up"
      BY <2>2, <2>5, <2>6, <2>7, <2>8, <2>9 DEF Sizes
    <2>13. \A e \in backlog' : status'[At(e)'] \in {"listening", "up"}
      BY <2>2, <2>5, <2>6, <2>7, <2>8 DEF Sizes
    <2>14. \A m \in Node : status'[m] \in {"off", "listening"} =>
              remote'[m] = None /\ typed'[m] = 0 /\ log'[m] = <<>>
      BY <2>2, <2>8 DEF TypeOK, Sizes
    <2>15. \A e \in End : remote'[e.by] = None => stream'[e] = <<>>
      BY <2>2, <2>4, <2>5, <2>7 DEF Sizes
    <2> QED
      BY <2>2, <2>3, <2>10, <2>11, <2>12, <2>13, <2>14, <2>15 DEF Sizes
  <1>4. ASSUME NEW n \in Node, StartFails(n)
        PROVE  TypeOK' /\ Sizes'
    <2>1. /\ status[n] = "listening" /\ status' = [status EXCEPT ![n] = "down"]
          /\ backlog' = {e \in backlog : At(e) # n}
          /\ UNCHANGED <<remote, peers, stream, sent, typed, log, anc>>
      BY <1>4 DEF StartFails
    <2>2. TypeOK'
      BY <2>1 DEF TypeOK
    <2>3. \A e : At(e)' = At(e)
      BY <1>0, <2>1
    <2>4. \A e \in peers \cup backlog : At(e) \in Node
      BY PeerFacts
    <2>5. \A m \in Node : m # n => status'[m] = status[m]
      BY <2>1 DEF TypeOK
    <2>6. status'[n] = "down"
      BY <2>1 DEF TypeOK
    <2>7. Sizes'
      BY <2>1, <2>3, <2>4, <2>5, <2>6 DEF Sizes
    <2> QED
      BY <2>2, <2>7
  <1>5. ASSUME NEW e \in End, Accept(e)
        PROVE  TypeOK' /\ Sizes'
    <2>1. /\ e \in backlog /\ status[At(e)] = "up"
          /\ backlog' = backlog \ {e} /\ peers' = peers \cup {e}
          /\ UNCHANGED <<status, remote, stream, sent, typed, log, anc>>
      BY <1>5 DEF Accept
    <2>2. TypeOK'
      BY <2>1 DEF TypeOK
    <2>3. \A f : At(f)' = At(f)
      BY <1>0, <2>1
    <2> QED
      BY <2>1, <2>2, <2>3 DEF Sizes
  <1>6. ASSUME NEW n \in Node, TypeLine(n)
        PROVE  TypeOK' /\ Sizes'
    <2>1. PICK len \in 1..LineLen :
             /\ typed' = [typed EXCEPT ![n] = @ + len]
             /\ log' \in [Node -> Seq(Piece)]
             /\ \A a \in Node \ {n} : log'[a] = log[a]
             /\ stream' \in [End -> Seq(Piece)]
             /\ \A e \in PeersOf(n) : stream'[e] = stream[e] \o Line(n, typed[n], len)
             /\ \A e \in End : e \notin PeersOf(n) => stream'[e] = stream[e]
      BY <1>6, TypeLineEffect
    <2>2. /\ status[n] = "up"
          /\ UNCHANGED <<status, remote, peers, backlog, sent, anc>>
      BY <1>6 DEF TypeLine
    <2>3. TypeOK'
      <3>1. len \in Nat
        BY NetAssumption
      <3>2. typed' \in [Node -> Nat]
        BY <2>1, <3>1 DEF TypeOK
      <3> QED
        BY <2>1, <2>2, <3>2 DEF TypeOK
    <2>4. ASSUME NEW e \in End
          PROVE  Len(stream[e]) <= Len(stream'[e])
      <3> DEFINE l == Line(n, typed[n], len)
      <3> typed[n] \in Nat /\ len \in Nat
        BY NetAssumption DEF TypeOK
      <3>1. l \in Seq(Piece)
        BY LineText
      <3> HIDE DEF l
      <3>2. stream[e] \in Seq(Piece)
        BY DEF TypeOK
      <3>3. stream'[e] = stream[e] \o l \/ stream'[e] = stream[e]
        BY <2>1 DEF l
      <3> QED
        BY <3>1, <3>2, <3>3
    <2>5. \A e \in End : sent'[e] <= Len(stream'[e])
      <3> SUFFICES ASSUME NEW e \in End PROVE sent'[e] <= Len(stream'[e])
        OBVIOUS
      <3>1. stream[e] \in Seq(Piece) /\ stream'[e] \in Seq(Piece) /\ sent[e] \in Nat
        BY <2>1 DEF TypeOK
      <3>2. sent'[e] = sent[e] /\ sent[e] <= Len(stream[e])
        BY <2>2 DEF Sizes
      <3> QED
        BY <2>4, <3>1, <3>2
    <2>6. \A e : At(e)' = At(e)
      BY <1>0, <2>2
    <2>7. \A m \in Node : status'[m] \in {"off", "listening"} =>
             remote'[m] = None /\ typed'[m] = 0 /\ log'[m] = <<>>
      <3> SUFFICES ASSUME NEW m \in Node, status[m] \in {"off", "listening"}
                   PROVE  remote'[m] = None /\ typed'[m] = 0 /\ log'[m] = <<>>
        BY <2>2
      <3>1. m # n
        BY <2>2
      <3>2. typed'[m] = typed[m] /\ log'[m] = log[m]
        BY <2>1, <3>1 DEF TypeOK
      <3> QED
        BY <2>2, <3>2 DEF Sizes
    <2>8. \A e \in PeersOf(n) : remote[e.by] # None
      BY DEF PeersOf, Sizes
    <2>9. \A e \in End : remote'[e.by] = None => stream'[e] = <<>>
      BY <2>1, <2>2, <2>8 DEF Sizes
    <2> QED
      BY <2>2, <2>3, <2>5, <2>6, <2>7, <2>9 DEF Sizes
  <1>7. ASSUME NEW e \in End, ReadPiece(e)
        PROVE  TypeOK' /\ Sizes'
    <2>0. PICK d \in End, n \in Node, to \in SUBSET End, p \in Piece : Relays(e, d, n, to, p)
      BY <1>7, ReadPieceEffect
    <2>1. /\ d = Far(e) /\ n = At(e) /\ to = PeersOf(n) \ {e} /\ p = Head(stream[d])
          /\ e \in peers /\ sent[d] > 0
          /\ remote[d.by] # None
          /\ stream[d] # <<>>
          /\ log' \in [Node -> Seq(Piece)]
          /\ \A a \in Node \ {n} : log'[a] = log[a]
          /\ stream' \in [End -> Seq(Piece)]
          /\ d \notin to => stream'[d] = Tail(stream[d])
          /\ d \in to => stream'[d] = Append(Tail(stream[d]), p)
          /\ \A f \in to : f # d => stream'[f] = Append(stream[f], p)
          /\ \A f \in End : f # d /\ f \notin to => stream'[f] = stream[f]
      BY <2>0 DEF Relays
    <2>2. /\ sent' = [sent EXCEPT ![d] = @ - 1]
          /\ UNCHANGED <<status, remote, peers, backlog, typed, anc>>
      BY <1>7, <2>1 DEF ReadPiece, CanRead, ReadPieceTo
    <2>3. sent' \in [End -> Nat] /\ sent'[d] = sent[d] - 1 /\ \A f \in End : f # d => sent'[f] = sent[f]
      <3>1. sent[d] \in Nat /\ sent[d] - 1 \in Nat
        BY <2>1, <2>2 DEF TypeOK
      <3> QED
        BY <2>1, <2>2, <3>1 DEF TypeOK
    <2>4. TypeOK'
      BY <2>1, <2>2, <2>3 DEF TypeOK
    <2>5. \A f \in End : sent'[f] <= Len(stream'[f])
      <3> SUFFICES ASSUME NEW f \in End PROVE sent'[f] <= Len(stream'[f])
        OBVIOUS
      <3>1. stream[f] \in Seq(Piece) /\ sent[f] \in Nat /\ sent[f] <= Len(stream[f])
        BY DEF TypeOK, Sizes
      <3>2. CASE f # d
        <4>1. sent'[f] = sent[f] /\ (stream'[f] = stream[f] \/ stream'[f] = Append(stream[f], p))
          BY <2>1, <2>3, <3>2
        <4> QED
          BY <2>1, <3>1, <4>1
      <3>3. CASE f = d
        <4>1. Tail(stream[d]) \in Seq(Piece) /\ Len(Tail(stream[d])) = Len(stream[d]) - 1
          BY <2>1, <3>1, <3>3, TailText
        <4>2. stream'[d] = Tail(stream[d]) \/ stream'[d] = Append(Tail(stream[d]), p)
          BY <2>1
        <4>3. Len(stream'[d]) >= Len(stream[d]) - 1 /\ Len(stream[d]) \in Nat /\ Len(stream'[d]) \in Nat
          BY <2>1, <3>1, <3>3, <4>1, <4>2
        <4>4. sent'[d] = sent[d] - 1
          BY <2>3
        <4> QED
          BY <3>1, <3>3, <4>3, <4>4
      <3> QED
        BY <3>2, <3>3
    <2>6. \A f : At(f)' = At(f)
      BY <1>0, <2>2
    <2>7. status[n] = "up"
      BY <2>1 DEF Sizes
    <2>8. \A m \in Node : status'[m] \in {"off", "listening"} =>
             remote'[m] = None /\ typed'[m] = 0 /\ log'[m] = <<>>
      BY <2>1, <2>2, <2>7 DEF Sizes
    <2>9. \A f \in to : remote[f.by] # None
      BY <2>1 DEF PeersOf, Sizes
    <2>10. \A f \in End : remote'[f.by] = None => stream'[f] = <<>>
      BY <2>1, <2>2, <2>9 DEF Sizes
    <2> QED
      BY <2>2, <2>4, <2>5, <2>6, <2>8, <2>10 DEF Sizes
  <1>8. ASSUME NEW e \in End, WritePiece(e)
        PROVE  TypeOK' /\ Sizes'
    <2>1. /\ sent[e] < Len(stream[e])
          /\ sent' = [sent EXCEPT ![e] = @ + 1]
          /\ UNCHANGED <<status, remote, peers, backlog, stream, typed, log, anc>>
      BY <1>8 DEF WritePiece
    <2>2. stream[e] \in Seq(Piece) /\ sent[e] \in Nat /\ Len(stream[e]) \in Nat
      BY DEF TypeOK
    <2>3. /\ sent' \in [End -> Nat] /\ sent'[e] = sent[e] + 1
          /\ \A f \in End : f # e => sent'[f] = sent[f]
      BY <2>1, <2>2 DEF TypeOK
    <2>4. \A f \in End : sent'[f] <= Len(stream'[f])
      BY <2>1, <2>2, <2>3 DEF Sizes
    <2>5. \A f : At(f)' = At(f)
      BY <1>0, <2>1
    <2> QED
      BY <2>1, <2>3, <2>4, <2>5 DEF TypeOK, Sizes
  <1>9. ASSUME \/ \E e \in End : Drop(e)
               \/ \E n \in Node : Exit(n)
        PROVE  TypeOK' /\ Sizes'
    <2>1. /\ stream' \in [End -> Seq(Piece)]
          /\ sent' \in [End -> Nat]
          /\ \A e \in End :
                /\ sent'[e] <= Len(stream'[e])
                /\ \E k \in Nat : k <= Len(stream[e]) /\ stream'[e] = SubSeq(stream[e], 1, k)
          /\ peers' \subseteq peers /\ backlog' \subseteq backlog
          /\ UNCHANGED <<remote, typed, log, anc>>
      BY <1>9, CloseEffect
    <2>2. status' \in [Node -> {"off", "listening", "up", "down"}]
      BY <1>9 DEF TypeOK, Drop, Exit
    <2>3. TypeOK'
      BY <2>1, <2>2 DEF TypeOK
    <2>4. \A e : At(e)' = At(e)
      BY <1>0, <2>1
    <2>5. /\ \A e \in peers' : status'[At(e)] = "up"
          /\ \A e \in backlog' : status'[At(e)] \in {"listening", "up"}
          /\ \A m \in Node : status'[m] \in {"off", "listening"} => status'[m] = status[m]
      <3>1. CASE \E e \in End : Drop(e)
        <4>1. status' = status
          BY <3>1 DEF Drop
        <4> QED
          BY <2>1, <4>1 DEF Sizes
      <3>2. CASE \E n \in Node : Exit(n)
        <4>1. PICK n \in Node : Exit(n)
          BY <3>2
        <4>2. /\ status' = [status EXCEPT ![n] = "down"]
              /\ \A e \in peers' \cup backlog' : At(e) # n /\ e \in peers \cup backlog
          BY <4>1 DEF Exit, PeersOf
        <4>3. \A m \in Node : m # n => status'[m] = status[m]
          BY <4>2 DEF TypeOK
        <4>4. status'[n] = "down"
          BY <4>2 DEF TypeOK
        <4>5. \A e \in peers \cup backlog : At(e) \in Node
          BY PeerFacts
        <4> QED
          BY <2>1, <4>2, <4>3, <4>4, <4>5 DEF Sizes
      <3> QED
        BY <1>9, <3>1, <3>2
    <2>6. \A e \in End : remote'[e.by] = None => stream'[e] = <<>>
      <3> SUFFICES ASSUME NEW e \in End, remote[e.by] = None PROVE stream'[e] = <<>>
        BY <2>1
      <3>1. stream[e] = <<>> /\ Len(stream[e]) = 0
        BY DEF Sizes
      <3>2. PICK k \in Nat : k <= Len(stream[e]) /\ stream'[e] = SubSeq(stream[e], 1, k)
        BY <2>1
      <3>3. k = 0
        BY <3>1, <3>2
      <3> QED
        BY <3>2, <3>3
    <2> QED
      BY <2>1, <2>3, <2>4, <2>5, <2>6 DEF Sizes
  <1>10. \A n, r \in Node : StartDial(n, r) => r \in Node
    OBVIOUS
  <1> QED
    BY <1>1, <1>2, <1>3, <1>4, <1>5, <1>6, <1>7, <1>8, <1>9 DEF Next

LEMMA TypeInit == Init => TypeOK /\ Sizes
  <1>1. Init => TypeOK
    BY NetAssumption DEF Init, TypeOK
  <1> SUFFICES ASSUME Init, TypeOK PROVE Sizes
    BY <1>1
  <1>2. \A e \in End : stream[e] = <<>> /\ sent[e] = 0 /\ sent[e] <= Len(stream[e])
    BY DEF Init
  <1> QED
    BY <1>2 DEF Init, Sizes

\* The state is always of its type: above all, no stream has less in it than its
\* socket, so what read() returns is there to be taken from it.
THEOREM TypeCorrect == Spec => []TypeOK
  <1>1. Init => TypeOK /\ Sizes
    BY TypeInit
  <1>2. TypeOK /\ Sizes /\ [Next]_vars => (TypeOK /\ Sizes)'
    BY TypeStep
  <1> QED
    BY <1>1, <1>2, PTL DEF Spec
-----------------------------------------------------------------------------
(* Without a ring the connections form a forest.                           *)

\* While nobody dials, the connections stay what they are.
LEMMA Steady ==
    ASSUME UNCHANGED <<remote, anc>>
    PROVE  /\ \A e : At(e)' = At(e)
           /\ \A e, s : Away(e, s)' <=> Away(e, s)
           /\ \A n, s : Joined(n, s)' <=> Joined(n, s)
           /\ NoRing' <=> NoRing
           /\ Forest' <=> Forest
  BY DEF At, Away, Joined, NoRing, Forest

\* What a dial changes, at other processes and at n.
LEMMA DialEffect ==
    ASSUME TypeOK, Sizes, NEW n \in Node, NEW r \in Node, StartDial(n, r)
    PROVE  /\ remote[n] = None /\ None \notin Node /\ log[n] = <<>> /\ typed[n] = 0
           /\ remote'[n] = r /\ \A m \in Node : m # n => remote'[m] = remote[m]
           /\ \A m \in Node : anc'[m] = IF n \in anc[m] THEN anc[m] \cup anc[r] ELSE anc[m]
           /\ \A m \in Node : anc[m] \subseteq anc'[m] /\ anc[m] \subseteq Node
           /\ \A e \in End : e.by # n => At(e)' = At(e)
           /\ \A e \in End : e.by = n =>
                 /\ stream[e] = <<>>
                 /\ e.side = "dial" => At(e)' = n /\ At(Far(e))' = r
                 /\ e.side # "dial" => At(e)' = r /\ At(Far(e))' = n
           /\ UNCHANGED <<stream, sent, typed, log>>
  <1>1. /\ status[n] = "listening"
        /\ remote' = [remote EXCEPT ![n] = r]
        /\ anc' = [m \in Node |-> IF n \in anc[m] THEN anc[m] \cup anc[r] ELSE anc[m]]
        /\ UNCHANGED <<stream, sent, typed, log>>
    BY DEF StartDial
  <1>2. /\ remote[n] = None /\ None \notin Node /\ log[n] = <<>> /\ typed[n] = 0
    BY <1>1, NetAssumption DEF Sizes
  <1>3. /\ remote'[n] = r /\ \A m \in Node : m # n => remote'[m] = remote[m]
        /\ \A m \in Node : anc'[m] = IF n \in anc[m] THEN anc[m] \cup anc[r] ELSE anc[m]
        /\ \A m \in Node : anc[m] \subseteq anc'[m] /\ anc[m] \subseteq Node
    BY <1>1 DEF TypeOK
  <1>4. \A e \in End : e.by # n => At(e)' = At(e)
    BY <1>3, EndFacts DEF At
  <1>5. ASSUME NEW e \in End, e.by = n
        PROVE  /\ stream[e] = <<>>
               /\ e.side = "dial" => At(e)' = n /\ At(Far(e))' = r
               /\ e.side # "dial" => At(e)' = r /\ At(Far(e))' = n
    <2>1. stream[e] = <<>>
      BY <1>2, <1>5 DEF Sizes
    <2>2. Far(e).by = n /\ Far(e).side = IF e.side = "dial" THEN "accept" ELSE "dial"
      BY <1>5, EndFacts
    <2> QED
      BY <1>3, <1>5, <2>1, <2>2 DEF At
  <1> QED
    BY <1>1, <1>2, <1>3, <1>4, <1>5

\* A ring stays.
LEMMA RingStays ==
    ASSUME TypeOK, Sizes, [Next]_vars, NoRing'
    PROVE  NoRing
  <1>1. CASE UNCHANGED <<remote, anc>>
    BY <1>1, Steady
  <1>2. CASE \E n, r \in Node : StartDial(n, r)
    <2>1. PICK n \in Node, r \in Node : StartDial(n, r)
      BY <1>2
    <2>2. /\ remote[n] = None /\ \A m \in Node : m # n => remote'[m] = remote[m]
          /\ \A m \in Node : anc[m] \subseteq anc'[m]
      BY <2>1, DialEffect
    <2> SUFFICES ASSUME NEW m \in Node, remote[m] # None PROVE m \notin anc[remote[m]]
      BY DEF NoRing
    <2>3. remote[m] \in Node /\ remote'[m] = remote[m] /\ remote'[m] # None
      BY <2>2 DEF TypeOK
    <2>4. m \notin anc'[remote'[m]]
      BY <2>3 DEF NoRing
    <2> QED
      BY <2>2, <2>3, <2>4
  <1>3. ~(\E n, r \in Node : StartDial(n, r)) => UNCHANGED <<remote, anc>>
    BY DEF Next, vars, Listen, StartAlone, StartFails, Accept, TypeLine, ReadPiece, ReadPieceTo,
           WritePiece, Drop, Exit
  <1> QED
    BY <1>1, <1>2, <1>3

\* A new connection hangs n's tree under r, which n did not know.
LEMMA ForestDial ==
    ASSUME TypeOK, Sizes, NoRing, Forest, NEW n \in Node, NEW r \in Node, StartDial(n, r), NoRing'
    PROVE  /\ Forest'
           /\ n \notin anc[r] /\ r \in anc'[n]
           /\ anc[n] = {n}
  <1>0. /\ remote[n] = None /\ None \notin Node
        /\ remote'[n] = r /\ \A m \in Node : m # n => remote'[m] = remote[m]
        /\ \A m \in Node : n \in anc[m] => anc'[m] = anc[m] \cup anc[r]
        /\ \A m \in Node : n \notin anc[m] => anc'[m] = anc[m]
        /\ \A m \in Node : anc[m] \subseteq anc'[m] /\ anc[m] \subseteq Node
        /\ \A m \in Node : remote[m] \in Node \cup {None}
    BY DialEffect DEF TypeOK
  <1>1. \A m \in Node : m \in anc[m]
    BY DEF Forest
  <1>2. /\ \A m \in Node : remote[m] = None => anc[m] = {m}
        /\ \A m \in Node : remote[m] # None => anc[m] = {m} \cup anc[remote[m]]
    BY DEF Forest
  <1>3. \A m \in Node : \A x \in anc[m] : anc[x] \subseteq anc[m]
    BY DEF Forest
  <1>4. \A m \in Node : \A x, y \in anc[m] : remote[x] = remote[y] /\ remote[x] # None => x = y
    BY DEF Forest
  <1>5. \A m \in Node : \A x, y \in anc[m] : remote[x] = None => x \in anc[y]
    BY DEF Forest
  <1>6. n \notin anc[r] /\ anc'[r] = anc[r]
    BY <1>0 DEF NoRing
  <1>7. \A m \in Node : remote[m] # None =>
           remote[m] \in Node /\ remote[m] \in anc[m] /\ m \notin anc[remote[m]]
    BY <1>0, <1>1, <1>2 DEF NoRing
  <1>8. \A m \in Node : m \in anc'[m]
    BY <1>0, <1>1
  <1>9. ASSUME NEW m \in Node
        PROVE  anc'[m] = {m} \cup (IF remote'[m] = None THEN {} ELSE anc'[remote'[m]])
    <2>1. CASE m = n
      <3>1. anc[n] = {n} /\ anc'[n] = anc[n] \cup anc[r]
        BY <1>0, <1>2
      <3> QED
        BY <1>0, <1>6, <2>1, <3>1
    <2>2. CASE m # n /\ remote[m] = None
      <3>1. anc[m] = {m} /\ remote'[m] = None
        BY <1>0, <1>2, <2>2
      <3> QED
        BY <1>0, <2>2, <3>1
    <2>3. CASE m # n /\ remote[m] # None
      <3>1. /\ remote'[m] = remote[m] /\ remote[m] \in Node
            /\ anc[m] = {m} \cup anc[remote[m]]
        BY <1>0, <1>2, <1>7, <2>3
      <3>2. n \in anc[m] <=> n \in anc[remote[m]]
        BY <2>3, <3>1
      <3>3. CASE n \in anc[m]
        <4>1. /\ anc'[m] = anc[m] \cup anc[r]
              /\ anc'[remote[m]] = anc[remote[m]] \cup anc[r]
          BY <1>0, <3>1, <3>2, <3>3
        <4> QED
          BY <2>3, <3>1, <4>1
      <3>4. CASE n \notin anc[m]
        <4>1. anc'[m] = anc[m] /\ anc'[remote[m]] = anc[remote[m]]
          BY <1>0, <3>1, <3>2, <3>4
        <4> QED
          BY <2>3, <3>1, <4>1
      <3> QED
        BY <3>3, <3>4
    <2> QED
      BY <2>1, <2>2, <2>3
  <1>10. ASSUME NEW m \in Node, NEW x \in anc'[m]
         PROVE  anc'[x] \subseteq anc'[m]
    <2>1. CASE n \notin anc[m]
      <3>1. x \in anc[m] /\ x \in Node /\ anc[x] \subseteq anc[m]
        BY <1>0, <1>3, <1>10, <2>1
      <3>2. anc'[x] = anc[x]
        BY <1>0, <2>1, <3>1
      <3> QED
        BY <1>0, <3>1, <3>2
    <2>2. CASE n \in anc[m] /\ x \in anc[m]
      <3>1. x \in Node /\ anc[x] \subseteq anc[m] /\ anc'[x] \subseteq anc[x] \cup anc[r]
        BY <1>0, <1>3, <2>2
      <3> QED
        BY <1>0, <2>2, <3>1
    <2>3. CASE n \in anc[m] /\ x \in anc[r]
      <3>1. x \in Node /\ anc[x] \subseteq anc[r] /\ n \notin anc[x]
        BY <1>0, <1>3, <1>6, <2>3
      <3> QED
        BY <1>0, <2>3, <3>1
    <2> QED
      BY <1>0, <1>10, <2>1, <2>2, <2>3
  <1>11. ASSUME NEW m \in Node, NEW x \in anc[m], NEW y \in anc[m], n \in anc[m],
                y # n, x = n, remote[y] = r
         PROVE  FALSE
    <2>1. y \in Node /\ remote[y] # None
      BY <1>0, <1>11
    <2>2. r \in anc[y] /\ anc[y] \subseteq anc[m]
      BY <1>3, <1>7, <1>11, <2>1
    <2>3. n \in anc[r]
      BY <1>0, <1>5, <1>11, <2>2
    <2> QED
      BY <1>6, <2>3
  <1>12. ASSUME NEW m \in Node, NEW x \in anc[m], NEW y \in anc[r], n \in anc[m],
                remote'[x] = remote'[y], remote'[x] # None
         PROVE  x = y
    <2>1. x \in Node /\ y \in Node /\ y # n /\ remote'[y] = remote[y]
      BY <1>0, <1>6
    <2>2. remote[y] # None /\ remote[y] \in Node /\ remote[y] \in anc[y] /\ y \notin anc[remote[y]]
      BY <1>7, <1>12, <2>1
    <2>3. anc[y] \subseteq anc[r] /\ anc[remote[y]] \subseteq anc[r]
      BY <1>3, <2>1, <2>2
    <2>4. CASE x = n
      BY <1>0, <1>12, <2>1, <2>2, <2>4
    <2>5. CASE x # n
      <3>1. remote[x] = remote[y]
        BY <1>0, <1>12, <2>1, <2>5
      <3>2. remote[x] \in anc[x] /\ anc[x] \subseteq anc[m]
        BY <1>3, <1>7, <2>1, <2>2, <3>1
      <3>3. n \in anc[remote[y]]
        BY <1>0, <1>5, <1>12, <3>1, <3>2
      <3> QED
        BY <1>6, <2>3, <3>3
    <2> QED
      BY <2>4, <2>5
  <1>13. ASSUME NEW m \in Node, NEW x \in anc'[m], NEW y \in anc'[m],
                remote'[x] = remote'[y], remote'[x] # None
         PROVE  x = y
    <2>1. CASE n \notin anc[m]
      <3>1. x \in anc[m] /\ y \in anc[m] /\ x # n /\ y # n /\ x \in Node /\ y \in Node
        BY <1>0, <1>13, <2>1
      <3> QED
        BY <1>0, <1>4, <1>13, <3>1
    <2>2. CASE n \in anc[m] /\ x \in anc[m] /\ y \in anc[m]
      <3>1. CASE x # n /\ y # n
        BY <1>0, <1>4, <1>13, <2>2, <3>1
      <3>2. CASE x = n /\ y # n
        <4>1. remote[y] = r
          BY <1>0, <1>13, <2>2, <3>2
        <4> QED
          BY <1>11, <2>2, <3>2, <4>1
      <3>3. CASE y = n /\ x # n
        <4>1. remote[x] = r
          BY <1>0, <1>13, <2>2, <3>3
        <4> QED
          BY <1>11, <2>2, <3>3, <4>1
      <3> QED
        BY <3>1, <3>2, <3>3
    <2>3. CASE n \in anc[m] /\ x \in anc[m] /\ y \in anc[r]
      BY <1>12, <1>13, <2>3
    <2>4. CASE n \in anc[m] /\ y \in anc[m] /\ x \in anc[r]
      BY <1>12, <1>13, <2>4
    <2>5. CASE x \in anc[r] /\ y \in anc[r]
      <3>1. x \in Node /\ y \in Node /\ x # n /\ y # n
        BY <1>0, <1>6, <2>5
      <3> QED
        BY <1>0, <1>4, <1>13, <2>5, <3>1
    <2> QED
      BY <1>0, <1>13, <2>1, <2>2, <2>3, <2>4, <2>5
  <1>14. ASSUME NEW m \in Node, NEW x \in anc'[m], NEW y \in anc'[m], remote'[x] = None
         PROVE  x \in anc'[y]
    <2>0. x \in Node /\ y \in Node /\ x # n /\ remote[x] = None
      BY <1>0, <1>14
    <2>1. CASE n \notin anc[m]
      <3>1. x \in anc[m] /\ y \in anc[m]
        BY <1>0, <1>14, <2>1
      <3> QED
        BY <1>0, <1>5, <2>0, <3>1
    <2>2. CASE n \in anc[m]
      <3>1. x \notin anc[m]
        <4>1. SUFFICES ASSUME x \in anc[m] PROVE FALSE
          OBVIOUS
        <4>2. x \in anc[n] /\ anc[n] = {n}
          BY <1>0, <1>2, <1>5, <2>0, <2>2, <4>1
        <4> QED
          BY <2>0, <4>2
      <3>2. x \in anc[r]
        BY <1>0, <1>14, <2>2, <3>1
      <3>3. CASE y \in anc[m]
        <4>1. n \in anc[y]
          BY <1>0, <1>5, <2>2, <3>3
        <4> QED
          BY <1>0, <2>0, <3>2, <4>1
      <3>4. CASE y \in anc[r]
        BY <1>0, <1>5, <2>0, <3>2, <3>4
      <3> QED
        BY <1>0, <1>14, <2>2, <3>3, <3>4
    <2> QED
      BY <2>1, <2>2
  <1>15. Forest'
    BY <1>8, <1>9, <1>10, <1>13, <1>14 DEF Forest
  <1>16. r \in anc'[n] /\ anc[n] = {n}
    BY <1>0, <1>1, <1>2
  <1> QED
    BY <1>6, <1>15, <1>16

\* While no dial closes a ring, the forest stays one.
LEMMA ForestStep ==
    ASSUME TypeOK, Sizes, NoRing, Forest, [Next]_vars, NoRing'
    PROVE  Forest'
  <1>1. CASE UNCHANGED <<remote, anc>>
    BY <1>1, Steady
  <1>2. CASE \E n, r \in Node : StartDial(n, r)
    BY <1>2, ForestDial
  <1>3. ~(\E n, r \in Node : StartDial(n, r)) => UNCHANGED <<remote, anc>>
    BY DEF Next, vars, Listen, StartAlone, StartFails, Accept, TypeLine, ReadPiece, ReadPieceTo,
           WritePiece, Drop, Exit
  <1> QED
    BY <1>1, <1>2, <1>3

-----------------------------------------------------------------------------
(* The ways text takes in a forest.                                        *)

\* From one's own end everything one has typed leads away, so nobody is
\* connected to himself.
LEMMA AwayOwn ==
    ASSUME TypeOK, NoRing, Forest, NEW e \in End, remote[e.by] # None
    PROVE  /\ Away(e, At(e)) /\ ~Away(e, At(Far(e)))
           /\ At(e) # At(Far(e))
  <1>1. \A f \in End : remote[f.by] # None => Away(f, At(f))
    <2> SUFFICES ASSUME NEW f \in End, remote[f.by] # None PROVE Away(f, At(f))
      OBVIOUS
    <2>1. f.by \in Node /\ f.by \in anc[f.by] /\ f.by \notin anc[remote[f.by]]
      BY EndFacts DEF Forest, NoRing
    <2> QED
      BY <2>1 DEF Away, At
  <1>2. Far(e) \in End /\ Far(e).by = e.by /\ \A s : Away(Far(e), s) <=> ~Away(e, s)
    BY EndFacts
  <1>3. Away(e, At(e)) /\ Away(Far(e), At(Far(e)))
    BY <1>1, <1>2
  <1> QED
    BY <1>2, <1>3

\* What has come away from its sender goes on away from it.
LEMMA Onward ==
    ASSUME TypeOK, NoRing, Forest, NEW d \in End, NEW f \in End, NEW s \in Node,
           remote[d.by] # None, remote[f.by] # None,
           At(Far(d)) = At(f), f # Far(d), Away(d, s)
    PROVE  Away(f, s)
  <1>1. /\ d.by \in Node /\ f.by \in Node /\ remote[d.by] \in Node /\ remote[f.by] \in Node
        /\ d.side # "dial" => d.side = "accept"
        /\ f.side # "dial" => f.side = "accept"
    BY EndFacts DEF TypeOK
  <1>2. /\ d.side = "dial" => At(Far(d)) = remote[d.by]
        /\ d.side # "dial" => At(Far(d)) = d.by
        /\ f.side = "dial" => At(f) = f.by
        /\ f.side # "dial" => At(f) = remote[f.by]
    BY AtFacts
  <1>3. /\ \A m \in Node : m \in anc[m]
        /\ \A m \in Node : remote[m] # None => anc[m] = {m} \cup anc[remote[m]]
        /\ \A x \in anc[s] : anc[x] \subseteq anc[s]
        /\ \A x, y \in anc[s] : remote[x] = remote[y] /\ remote[x] # None => x = y
    BY DEF Forest
  <1>4. f.by = d.by => f = d
    BY EndFacts
  <1>5. CASE d.side = "dial" /\ f.side = "dial"
    <2>1. d.by \in anc[s] /\ f.by = remote[d.by]
      BY <1>2, <1>5 DEF Away
    <2>2. f.by \in anc[s]
      BY <1>1, <1>3, <2>1
    <2> QED
      BY <1>5, <2>2 DEF Away
  <1>6. CASE d.side = "dial" /\ f.side # "dial"
    <2>1. d.by \in anc[s] /\ remote[f.by] = remote[d.by] /\ f.by # d.by
      BY <1>2, <1>4, <1>6 DEF Away
    <2>2. f.by \notin anc[s]
      BY <1>3, <2>1
    <2> QED
      BY <1>6, <2>2 DEF Away
  <1>7. CASE d.side # "dial" /\ f.side = "dial"
    <2>1. f.by = d.by
      BY <1>2, <1>7
    <2> QED
      BY <1>4, <1>7, <2>1
  <1>8. CASE d.side # "dial" /\ f.side # "dial"
    <2>1. d.by \notin anc[s] /\ remote[f.by] = d.by
      BY <1>2, <1>8 DEF Away
    <2>2. f.by \notin anc[s]
      BY <1>1, <1>3, <2>1
    <2> QED
      BY <1>8, <2>2 DEF Away
  <1> QED
    BY <1>5, <1>6, <1>7, <1>8

\* Each process has one connection at which a sender's text can arrive.
LEMMA OneWayIn ==
    ASSUME TypeOK, NoRing, Forest, NEW d \in End, NEW x \in End, NEW s \in Node,
           remote[d.by] # None, remote[x.by] # None,
           At(Far(d)) = At(Far(x)), Away(d, s), Away(x, s)
    PROVE  d = x
  <1> SUFFICES ASSUME d # x PROVE FALSE
    OBVIOUS
  <1>1. /\ Far(x) \in End /\ Far(x).by = x.by
        /\ Far(Far(x)) = x /\ Far(Far(d)) = d /\ ~Away(Far(x), s)
    BY EndFacts
  <1>2. Far(x) # Far(d)
    BY <1>1
  <1>3. Away(Far(x), s)
    BY <1>1, <1>2, Onward
  <1> QED
    BY <1>1, <1>3

\* The ends of a connection are in one tree.
LEMMA JoinedAcross ==
    ASSUME TypeOK, Forest, NEW e \in End, remote[e.by] # None, NEW s \in Node
    PROVE  /\ Joined(At(e), s) <=> Joined(e.by, s)
           /\ Joined(At(Far(e)), s) <=> Joined(e.by, s)
  <1>1. e.by \in Node /\ remote[e.by] \in Node
    BY EndFacts DEF TypeOK
  <1>2. /\ anc[e.by] = {e.by} \cup anc[remote[e.by]] /\ remote[e.by] \in anc[remote[e.by]]
        /\ \A x \in anc[s] : anc[x] \subseteq anc[s]
    BY <1>1 DEF Forest
  <1>3. Joined(e.by, s) <=> Joined(remote[e.by], s)
    <2>1. ASSUME Joined(e.by, s) PROVE Joined(remote[e.by], s)
      <3>1. PICK x \in Node : x \in anc[e.by] /\ x \in anc[s]
        BY <2>1 DEF Joined
      <3>2. CASE x = e.by
        BY <1>1, <1>2, <3>1, <3>2 DEF Joined
      <3>3. CASE x \in anc[remote[e.by]]
        BY <3>1, <3>3 DEF Joined
      <3> QED
        BY <1>2, <3>1, <3>2, <3>3
    <2>2. Joined(remote[e.by], s) => Joined(e.by, s)
      BY <1>2 DEF Joined
    <2> QED
      BY <2>1, <2>2
  <1>4. /\ At(e) = e.by \/ At(e) = remote[e.by]
        /\ At(Far(e)) = e.by \/ At(Far(e)) = remote[e.by]
    BY AtFacts
  <1> QED
    BY <1>3, <1>4

\* Whoever is in the tree of s has its root n above him.
LEMMA RootJoined ==
    ASSUME TypeOK, Forest, NEW n \in Node, remote[n] = None, NEW s \in Node, n \in anc[s],
           NEW a \in Node, Joined(a, s)
    PROVE  n \in anc[a]
  <1>1. PICK x \in Node : x \in anc[a] /\ x \in anc[s]
    BY DEF Joined
  <1>2. n \in anc[x] /\ anc[x] \subseteq anc[a]
    BY <1>1 DEF Forest
  <1> QED
    BY <1>2

\* A dial leaves the directions in every tree as they were, and nothing that its
\* two processes have seen leads over the new connection.
LEMMA DialAway ==
    ASSUME TypeOK, Sizes, NoRing, Forest, NEW n \in Node, NEW r \in Node, StartDial(n, r), NoRing'
    PROVE  /\ \A e \in End : \A s \in Node : remote[e.by] # None /\ Joined(e.by, s)
                 => (Away(e, s)' <=> Away(e, s))
           /\ \A a, s \in Node : Joined(a, s) => Joined(a, s)'
           /\ \A s \in Node : Joined(r, s) => n \notin anc'[s]
  <1>1. /\ remote[n] = None
        /\ \A m \in Node : anc'[m] = IF n \in anc[m] THEN anc[m] \cup anc[r] ELSE anc[m]
        /\ \A m \in Node : anc[m] \subseteq anc'[m] /\ anc[m] \subseteq Node
    BY DialEffect
  <1>2. n \notin anc[r]
    BY ForestDial
  <1>3. ASSUME NEW e \in End, NEW s \in Node, remote[e.by] # None, Joined(e.by, s)
        PROVE  e.by \in anc'[s] <=> e.by \in anc[s]
    <2>1. e.by \in Node
      BY EndFacts
    <2>2. ASSUME e.by \in anc[r], n \in anc[s] PROVE FALSE
      <3>1. n \in anc[e.by]
        BY <1>1, <1>3, <2>1, <2>2, RootJoined
      <3>2. anc[e.by] \subseteq anc[r]
        BY <2>2 DEF Forest
      <3> QED
        BY <1>2, <3>1, <3>2
    <2> QED
      BY <1>1, <2>2
  <1>4. \A a, s \in Node : Joined(a, s) => Joined(a, s)'
    BY <1>1 DEF Joined
  <1>5. ASSUME NEW s \in Node, Joined(r, s)
        PROVE  n \notin anc'[s]
    <2>1. n \notin anc[s]
      BY <1>1, <1>2, <1>5, RootJoined
    <2> QED
      BY <1>1, <2>1
  <1> QED
    BY <1>3, <1>4, <1>5 DEF Away

-----------------------------------------------------------------------------
(* Text flows away from its sender.                                        *)

\* What Flow says of a piece under way at the end e, in one place.
LEMMA FlowFacts ==
    ASSUME TypeOK, Sizes, Flow
    PROVE  /\ \A e \in End : \A p \in Text(stream[e]) :
                 /\ remote[e.by] # None /\ p \in Piece /\ p.src \in Node
                 /\ At(e) \in Node /\ At(Far(e)) \in Node
                 /\ Away(e, p.src) /\ p \in Text(log[At(e)])
                 /\ \A q \in Text(log[At(Far(e))]) : p.src = q.src => q.no < p.no
           /\ \A n \in Node : \A q \in Text(log[n]) :
                 /\ q \in Piece /\ q.src \in Node /\ q.no \in Nat
                 /\ q.no > 0 /\ q.no <= typed[q.src] /\ Joined(n, q.src)
           /\ \A e \in End : remote[e.by] # None =>
                 \A q \in Text(log[At(Far(e))]) : Away(e, q.src) => q \in Text(log[At(e)])
           /\ \A e \in End : Ordered(stream[e]) /\ Text(stream[e]) \subseteq Piece
           /\ \A n \in Node : Ordered(log[n]) /\ Text(log[n]) \subseteq Piece
  <1>1. \A e \in End : Text(stream[e]) \subseteq Piece
    BY TextType DEF TypeOK
  <1>2. \A n \in Node : Text(log[n]) \subseteq Piece
    BY TextType DEF TypeOK
  <1>3. \A p \in Piece : p.src \in Node /\ p.no \in Nat
    BY DEF Piece
  <1>4. ASSUME NEW e \in End, NEW p \in Text(stream[e])
        PROVE  remote[e.by] # None /\ At(e) \in Node /\ At(Far(e)) \in Node
    <2>1. Text(<<>>) = {}
      BY DEF Text
    <2>2. stream[e] # <<>>
      BY <2>1
    <2> QED
      BY <2>2, StreamFacts
  <1> QED
    BY <1>1, <1>2, <1>3, <1>4 DEF Flow

\* Nothing changes while neither streams nor logs nor connections do.
LEMMA FlowKept ==
    ASSUME UNCHANGED <<remote, anc, stream, typed, log>>
    PROVE  Flow' <=> Flow
  <1>1. /\ \A e : At(e)' = At(e)
        /\ \A e, s : Away(e, s)' <=> Away(e, s)
        /\ \A n, s : Joined(n, s)' <=> Joined(n, s)
    BY Steady
  <1> QED
    BY <1>1 DEF Flow

\* A dial joins two trees, in which nothing is under way between them.
LEMMA FlowDial ==
    ASSUME TypeOK, Sizes, NoRing, Forest, Flow,
           NEW n \in Node, NEW r \in Node, StartDial(n, r), NoRing'
    PROVE  Flow'
  <1>1. /\ remote[n] = None /\ log[n] = <<>> /\ remote'[n] = r
        /\ \A m \in Node : m # n => remote'[m] = remote[m]
        /\ \A e \in End : e.by # n => At(e)' = At(e)
        /\ \A e \in End : e.by = n =>
              /\ stream[e] = <<>>
              /\ e.side = "dial" => At(e)' = n /\ At(Far(e))' = r
              /\ e.side # "dial" => At(e)' = r /\ At(Far(e))' = n
        /\ UNCHANGED <<stream, sent, typed, log>>
    BY DialEffect
  <1>2. /\ \A e \in End : \A s \in Node : remote[e.by] # None /\ Joined(e.by, s)
              => (Away(e, s)' <=> Away(e, s))
        /\ \A a, s \in Node : Joined(a, s) => Joined(a, s)'
        /\ \A s \in Node : Joined(r, s) => n \notin anc'[s]
    BY DialAway
  <1>3. Text(<<>>) = {}
    BY DEF Text
  <1>4. ASSUME NEW e \in End, e.by # n
        PROVE  /\ At(e)' = At(e) /\ At(Far(e))' = At(Far(e))
               /\ remote'[e.by] = remote[e.by]
               /\ \A s \in Node : remote[e.by] # None /\ (Joined(At(e), s) \/ Joined(At(Far(e)), s))
                     => (Away(e, s)' <=> Away(e, s))
    <2>1. Far(e) \in End /\ Far(e).by # n /\ e.by \in Node
      BY <1>4, EndFacts
    <2>2. ASSUME NEW s \in Node, remote[e.by] # None, Joined(At(e), s) \/ Joined(At(Far(e)), s)
          PROVE  Joined(e.by, s)
      BY <2>2, JoinedAcross
    <2> QED
      BY <1>1, <1>2, <1>4, <2>1, <2>2
  <1>5. ASSUME NEW e \in End, NEW p \in Text(stream[e])
        PROVE  /\ Away(e, p.src)' /\ p \in Text(log[At(e)'])
               /\ \A q \in Text(log[At(Far(e))']) : p.src = q.src => q.no < p.no
    <2>1. e.by # n
      BY <1>1, <1>3, <1>5
    <2>2. /\ remote[e.by] # None /\ p.src \in Node /\ At(e) \in Node
          /\ Away(e, p.src) /\ p \in Text(log[At(e)])
          /\ \A q \in Text(log[At(Far(e))]) : p.src = q.src => q.no < p.no
      BY FlowFacts
    <2>3. Joined(At(e), p.src)
      BY <2>2, FlowFacts
    <2> QED
      BY <1>4, <2>1, <2>2, <2>3
  <1>6. ASSUME NEW e \in End, remote'[e.by] # None, NEW q \in Text(log[At(Far(e))']), Away(e, q.src)'
        PROVE  q \in Text(log[At(e)'])
    <2>1. CASE e.by # n
      <3>1. /\ remote[e.by] # None /\ At(e)' = At(e) /\ At(Far(e))' = At(Far(e))
            /\ At(Far(e)) \in Node
        BY <1>4, <1>6, <2>1, AtFacts
      <3>2. q.src \in Node /\ Joined(At(Far(e)), q.src)
        BY <1>6, <3>1, FlowFacts
      <3>3. Away(e, q.src)
        BY <1>4, <1>6, <2>1, <3>1, <3>2
      <3> QED
        BY <1>6, <3>1, <3>3, FlowFacts
    <2>2. CASE e.by = n /\ e.side = "dial"
      <3>1. q \in Text(log[r])
        BY <1>1, <1>6, <2>2
      <3>2. q.src \in Node /\ Joined(r, q.src)
        BY <3>1, FlowFacts
      <3>3. n \notin anc'[q.src]
        BY <1>2, <3>2
      <3> QED
        BY <1>6, <2>2, <3>3 DEF Away
    <2>3. CASE e.by = n /\ e.side # "dial"
      BY <1>1, <1>3, <1>6, <2>3
    <2> QED
      BY <2>1, <2>2, <2>3
  <1>7. \A m \in Node : \A q \in Text(log[m]) :
           q.no > 0 /\ q.no <= typed[q.src] /\ Joined(m, q.src)'
    BY <1>2, FlowFacts
  <1> QED
    BY <1>1, <1>5, <1>6, <1>7, FlowFacts DEF Flow

\* A typed line is newer than all other text of its sender, and leads away.
LEMMA FlowType ==
    ASSUME TypeOK, Sizes, NoRing, Forest, Flow, NEW n \in Node, TypeLine(n)
    PROVE  Flow'
  <1>1. PICK len \in 1..LineLen :
           /\ typed' = [typed EXCEPT ![n] = @ + len]
           /\ log' \in [Node -> Seq(Piece)]
           /\ log'[n] = log[n] \o Line(n, typed[n], len)
           /\ \A a \in Node \ {n} : log'[a] = log[a]
           /\ stream' \in [End -> Seq(Piece)]
           /\ \A e \in PeersOf(n) : stream'[e] = stream[e] \o Line(n, typed[n], len)
           /\ \A e \in End : e \notin PeersOf(n) => stream'[e] = stream[e]
    BY TypeLineEffect
  <1>2. UNCHANGED <<remote, peers, anc>>
    BY DEF TypeLine
  <1> DEFINE l == Line(n, typed[n], len)
  <1>3. len \in Nat /\ typed[n] \in Nat
    BY NetAssumption DEF TypeOK
  <1>4. /\ l \in Seq(Piece) /\ Ordered(l)
        /\ \A q \in Text(l) : q.src = n /\ q.no > typed[n] /\ q.no <= typed[n] + len
    BY <1>3, LineText
  <1>5. /\ log'[n] = log[n] \o l
        /\ \A e \in PeersOf(n) : stream'[e] = stream[e] \o l
    BY <1>1
  <1> HIDE DEF l
  <1>6. Text(l) \subseteq Piece
    BY <1>4, TextType
  <1>7. /\ \A m \in Node : typed[m] \in Nat /\ typed'[m] \in Nat /\ typed[m] <= typed'[m]
        /\ typed'[n] = typed[n] + len
    BY <1>1, <1>3 DEF TypeOK
  <1>8. /\ \A e : At(e)' = At(e)
        /\ \A e, s : Away(e, s)' <=> Away(e, s)
        /\ \A m, s : Joined(m, s)' <=> Joined(m, s)
    BY <1>2, Steady
  <1>9. Text(log'[n]) = Text(log[n]) \cup Text(l) /\ Ordered(log'[n])
    <2>1. log[n] \in Seq(Piece) /\ Ordered(log[n])
      BY FlowFacts DEF TypeOK
    <2>2. \A p \in Text(log[n]), q \in Text(l) : p.src = q.src => p.no < q.no
      <3> SUFFICES ASSUME NEW p \in Text(log[n]), NEW q \in Text(l), p.src = q.src
                   PROVE  p.no < q.no
        OBVIOUS
      <3>1. p.no \in Nat /\ p.no <= typed[p.src]
        BY FlowFacts
      <3>2. q.src = n /\ q.no > typed[n] /\ q.no \in Nat
        BY <1>4, <1>6 DEF Piece
      <3> QED
        BY <1>3, <3>1, <3>2
    <2> QED
      BY <1>4, <1>5, <2>1, <2>2, ConcatText
  <1>10. ASSUME NEW e \in PeersOf(n)
         PROVE  /\ e \in End /\ remote[e.by] # None /\ At(e) = n /\ At(Far(e)) # n /\ Away(e, n)
                /\ At(Far(e)) \in Node
                /\ Text(stream'[e]) = Text(stream[e]) \cup Text(l) /\ Ordered(stream'[e])
    <2>1. e \in End /\ remote[e.by] # None /\ At(e) = n /\ At(Far(e)) \in Node
      BY PeerFacts DEF PeersOf
    <2>2. Away(e, n) /\ At(Far(e)) # n
      BY <2>1, AwayOwn
    <2>3. stream[e] \in Seq(Piece) /\ Ordered(stream[e])
      BY <2>1, FlowFacts DEF TypeOK
    <2>4. \A p \in Text(stream[e]), q \in Text(l) : p.src = q.src => p.no < q.no
      <3> SUFFICES ASSUME NEW p \in Text(stream[e]), NEW q \in Text(l), p.src = q.src
                   PROVE  p.no < q.no
        OBVIOUS
      <3>0. p \in Text(log[n])
        BY <2>1, FlowFacts
      <3>1. p.no \in Nat /\ p.no <= typed[p.src]
        BY <3>0, FlowFacts
      <3>2. q.src = n /\ q.no > typed[n] /\ q.no \in Nat
        BY <1>4, <1>6 DEF Piece
      <3> QED
        BY <1>3, <3>1, <3>2
    <2>5. Text(stream'[e]) = Text(stream[e]) \cup Text(l) /\ Ordered(stream'[e])
      BY <1>4, <1>5, <2>3, <2>4, ConcatText
    <2> QED
      BY <2>1, <2>2, <2>5
  <1>11. \A m \in Node : Text(log[m]) \subseteq Text(log'[m])
    BY <1>1, <1>9
  <1>12. ASSUME NEW e \in End, NEW p \in Text(stream'[e])
         PROVE  /\ Away(e, p.src) /\ p \in Text(log'[At(e)])
                /\ \A q \in Text(log'[At(Far(e))]) : p.src = q.src => q.no < p.no
    <2>1. CASE p \in Text(stream[e])
      <3>1. /\ At(e) \in Node /\ At(Far(e)) \in Node /\ p \in Piece /\ p.src \in Node
            /\ Away(e, p.src) /\ p \in Text(log[At(e)]) /\ remote[e.by] # None
            /\ \A q \in Text(log[At(Far(e))]) : p.src = q.src => q.no < p.no
        BY <2>1, FlowFacts
      <3>2. ASSUME NEW q \in Text(log'[At(Far(e))]), q \notin Text(log[At(Far(e))])
            PROVE  p.src # q.src
        <4>1. At(Far(e)) = n /\ q \in Text(l)
          BY <1>1, <1>9, <3>1, <3>2
        <4>2. q.src = n /\ ~Away(e, n)
          BY <1>4, <3>1, <4>1, AwayOwn
        <4> QED
          BY <3>1, <4>2
      <3> QED
        BY <1>11, <3>1, <3>2
    <2>2. CASE p \notin Text(stream[e])
      <3>1. e \in PeersOf(n)
        BY <1>1, <1>12, <2>2
      <3>2. p \in Text(l) /\ p.src = n /\ p.no > typed[n] /\ p.no \in Nat
        BY <1>4, <1>6, <1>10, <1>12, <2>2, <3>1 DEF Piece
      <3>3. At(e) = n /\ At(Far(e)) # n /\ Away(e, n) /\ At(Far(e)) \in Node
        BY <1>10, <3>1
      <3>4. ASSUME NEW q \in Text(log'[At(Far(e))]), p.src = q.src
            PROVE  q.no < p.no
        <4>1. q \in Text(log[At(Far(e))])
          BY <1>1, <3>3, <3>4
        <4>2. q.no \in Nat /\ q.no <= typed[n]
          BY <3>2, <3>3, <3>4, <4>1, FlowFacts
        <4> QED
          BY <1>3, <3>2, <4>2
      <3> QED
        BY <1>9, <3>2, <3>3, <3>4
    <2> QED
      BY <2>1, <2>2
  <1>13. ASSUME NEW e \in End, remote[e.by] # None, NEW q \in Text(log'[At(Far(e))]), Away(e, q.src)
         PROVE  q \in Text(log'[At(e)])
    <2>1. At(e) \in Node /\ At(Far(e)) \in Node
      BY <1>13, AtFacts
    <2>2. CASE q \in Text(log[At(Far(e))])
      BY <1>11, <1>13, <2>1, <2>2, FlowFacts
    <2>3. CASE q \notin Text(log[At(Far(e))])
      <3>1. At(Far(e)) = n /\ q.src = n
        BY <1>1, <1>4, <1>9, <1>13, <2>1, <2>3
      <3> QED
        BY <1>13, <3>1, AwayOwn
    <2> QED
      BY <2>2, <2>3
  <1>14. ASSUME NEW m \in Node, NEW q \in Text(log'[m])
         PROVE  q.no > 0 /\ q.no <= typed'[q.src] /\ Joined(m, q.src)
    <2>1. CASE q \in Text(log[m])
      <3>1. /\ q.src \in Node /\ q.no \in Nat /\ q.no > 0 /\ q.no <= typed[q.src]
            /\ Joined(m, q.src)
        BY <2>1, FlowFacts
      <3>2. typed[q.src] \in Nat /\ typed'[q.src] \in Nat /\ typed[q.src] <= typed'[q.src]
        BY <1>7, <3>1
      <3> QED
        BY <3>1, <3>2
    <2>2. CASE q \notin Text(log[m])
      <3>1. m = n /\ q \in Text(l)
        BY <1>1, <1>9, <1>14, <2>2
      <3>2. q.src = n /\ q.no > typed[n] /\ q.no <= typed[n] + len /\ q.no \in Nat
        BY <1>4, <1>6, <3>1 DEF Piece
      <3>3. q.no > 0 /\ q.no <= typed'[n]
        BY <1>3, <1>7, <3>2
      <3>4. Joined(n, n)
        BY DEF Joined, Forest
      <3> QED
        BY <3>1, <3>2, <3>3, <3>4
    <2> QED
      BY <2>1, <2>2
  <1>15. \A e \in End : Ordered(stream'[e])
    BY <1>1, <1>10, FlowFacts
  <1>16. \A m \in Node : Ordered(log'[m])
    BY <1>1, <1>9, FlowFacts
  <1> QED
    BY <1>2, <1>8, <1>12, <1>13, <1>14, <1>15, <1>16 DEF Flow

\* What a forest makes of that: the piece comes from another process, which has
\* it, is news to this one, and goes on away from its sender.
Passes(e, d, n, to, p) ==
    /\ d = Far(e) /\ e = Far(d) /\ remote[d.by] # None
    /\ n = At(e) /\ n = At(Far(d)) /\ At(d) \in Node /\ At(d) # n /\ d \notin to
    /\ p \in Text(stream[d]) /\ p.src \in Node /\ Away(d, p.src) /\ p \in Text(log[At(d)])
    /\ p.src # n
    /\ \A q \in Text(log[n]) : q.src = p.src => q.no < p.no
    /\ stream[d] \in Seq(Piece) /\ stream[d] # <<>> /\ p = Head(stream[d])
    /\ stream'[d] = Tail(stream[d])
    /\ \A x \in End : remote[x.by] # None /\ At(Far(x)) = n /\ Away(x, p.src) => x = d
    /\ \A f \in to : /\ f # d /\ f \in peers /\ remote[f.by] # None
                     /\ At(f) = n /\ At(Far(f)) # n /\ At(Far(f)) \in Node
                     /\ Away(f, p.src)
                     /\ stream'[f] = Append(stream[f], p)
    /\ \A f \in End : f # d /\ f \notin to => stream'[f] = stream[f]
    /\ log' \in [Node -> Seq(Piece)] /\ log'[n] = Append(log[n], p)
    /\ \A a \in Node \ {n} : log'[a] = log[a]

\* In a forest a piece is relayed so.
LEMMA RelayFacts ==
    ASSUME TypeOK, Sizes, NoRing, Forest, Flow,
           NEW e \in End, NEW d \in End, NEW n \in Node, NEW to \in SUBSET End, NEW p \in Piece,
           Relays(e, d, n, to, p)
    PROVE  Passes(e, d, n, to, p)
  <1>1. /\ d = Far(e) /\ n = At(e) /\ to = PeersOf(n) \ {e} /\ p = Head(stream[d])
        /\ e \in peers /\ At(Far(d)) = n
        /\ remote[e.by] # None /\ remote[d.by] # None
        /\ stream[d] # <<>>
        /\ log' \in [Node -> Seq(Piece)]
        /\ log'[n] = Append(log[n], p)
        /\ \A a \in Node \ {n} : log'[a] = log[a]
        /\ d \notin to => stream'[d] = Tail(stream[d])
        /\ \A f \in to : f # d => stream'[f] = Append(stream[f], p)
        /\ \A f \in End : f # d /\ f \notin to => stream'[f] = stream[f]
    BY DEF Relays
  <1>2. e = Far(d)
    BY <1>1, EndFacts
  <1>3. stream[d] \in Seq(Piece) /\ p \in Text(stream[d])
    BY <1>1, TailText DEF TypeOK
  <1>4. /\ p.src \in Node /\ At(d) \in Node /\ Away(d, p.src) /\ p \in Text(log[At(d)])
        /\ \A q \in Text(log[n]) : q.src = p.src => q.no < p.no
    BY <1>1, <1>3, FlowFacts
  <1>5. At(d) # n /\ p.src # n
    BY <1>1, <1>4, AwayOwn
  <1>6. d \notin to
    BY <1>1, <1>5 DEF PeersOf
  <1>7. \A x \in End : remote[x.by] # None /\ At(Far(x)) = n /\ Away(x, p.src) => x = d
    BY <1>1, <1>4, OneWayIn
  <1>8. ASSUME NEW f \in to
        PROVE  /\ f # d /\ f \in peers /\ remote[f.by] # None
               /\ At(f) = n /\ At(Far(f)) # n /\ At(Far(f)) \in Node
               /\ Away(f, p.src)
               /\ stream'[f] = Append(stream[f], p)
    <2>1. f \in peers /\ f \in End /\ At(f) = n /\ f # e /\ f # d
      BY <1>1, <1>6 DEF PeersOf
    <2>2. remote[f.by] # None /\ At(Far(f)) \in Node
      BY <2>1, PeerFacts
    <2>3. At(Far(f)) # n
      BY <2>1, <2>2, AwayOwn
    <2>4. Away(f, p.src)
      BY <1>1, <1>2, <1>4, <2>1, <2>2, Onward
    <2> QED
      BY <1>1, <2>1, <2>2, <2>3, <2>4
  <1> QED
    BY <1>1, <1>2, <1>3, <1>4, <1>5, <1>6, <1>7, <1>8 DEF Passes

\* A relayed piece is newer than its sender's other pieces, where it is printed
\* as where it is queued.
LEMMA FlowRead ==
    ASSUME TypeOK, Sizes, NoRing, Forest, Flow, NEW e \in End, ReadPiece(e)
    PROVE  Flow'
  <1>1. PICK d \in End, n \in Node, to \in SUBSET End, p \in Piece : Relays(e, d, n, to, p)
    BY ReadPieceEffect
  <1> Passes(e, d, n, to, p)
    BY <1>1, RelayFacts
  <1>2. /\ n = At(Far(d)) /\ At(d) \in Node /\ At(d) # n /\ d \notin to /\ remote[d.by] # None
        /\ p \in Text(stream[d]) /\ p.src \in Node /\ Away(d, p.src) /\ p \in Text(log[At(d)])
        /\ \A q \in Text(log[n]) : q.src = p.src => q.no < p.no
        /\ stream[d] \in Seq(Piece) /\ stream[d] # <<>> /\ p = Head(stream[d])
        /\ stream'[d] = Tail(stream[d])
        /\ \A x \in End : remote[x.by] # None /\ At(Far(x)) = n /\ Away(x, p.src) => x = d
        /\ \A f \in to : /\ f # d /\ remote[f.by] # None
                         /\ At(f) = n /\ At(Far(f)) # n /\ At(Far(f)) \in Node
                         /\ Away(f, p.src)
                         /\ stream'[f] = Append(stream[f], p)
        /\ \A f \in End : f # d /\ f \notin to => stream'[f] = stream[f]
        /\ log'[n] = Append(log[n], p)
        /\ \A a \in Node \ {n} : log'[a] = log[a]
    BY DEF Passes
  <1>3. UNCHANGED <<remote, anc, typed>>
    BY DEF ReadPiece, ReadPieceTo
  <1>4. /\ \A x : At(x)' = At(x)
        /\ \A x, s : Away(x, s)' <=> Away(x, s)
        /\ \A m, s : Joined(m, s)' <=> Joined(m, s)
    BY <1>3, Steady
  <1>5. Text(log'[n]) = Text(log[n]) \cup {p} /\ Ordered(log'[n])
    <2>1. log[n] \in Seq(Piece) /\ Ordered(log[n])
      BY FlowFacts DEF TypeOK
    <2> QED
      BY <1>2, <2>1, AppendText
  <1>6. /\ Text(stream'[d]) \subseteq Text(stream[d]) /\ Ordered(stream'[d])
        /\ \A q \in Text(stream'[d]) : q.src = p.src => p.no < q.no
    BY <1>2, TailText, FlowFacts
  <1>7. ASSUME NEW f \in to
        PROVE  Text(stream'[f]) = Text(stream[f]) \cup {p} /\ Ordered(stream'[f])
    <2>1. stream[f] \in Seq(Piece) /\ Ordered(stream[f])
      BY FlowFacts DEF TypeOK
    <2>2. \A q \in Text(stream[f]) : q.src = p.src => q.no < p.no
      <3>1. Text(stream[f]) \subseteq Text(log[n])
        BY <1>2, FlowFacts
      <3> QED
        BY <1>2, <3>1
    <2>3. stream'[f] = Append(stream[f], p)
      BY <1>2
    <2> QED
      BY <2>1, <2>2, <2>3, AppendText
  <1>8. \A m \in Node : Text(log[m]) \subseteq Text(log'[m])
    BY <1>2, <1>5
  <1>9. \A x \in End : \A q \in Text(stream'[x]) : q \in Text(stream[x]) \/ (q = p /\ x \in to)
    <2> SUFFICES ASSUME NEW x \in End, NEW q \in Text(stream'[x])
                 PROVE  q \in Text(stream[x]) \/ (q = p /\ x \in to)
      OBVIOUS
    <2>1. CASE x = d
      BY <1>6, <2>1
    <2>2. CASE x \in to
      BY <1>7, <2>2
    <2>3. CASE x # d /\ x \notin to
      <3>1. stream'[x] = stream[x]
        BY <1>2, <2>3
      <3> QED
        BY <3>1
    <2> QED
      BY <2>1, <2>2, <2>3
  <1>10. \A m \in Node : \A q \in Text(log'[m]) : q \in Text(log[m]) \/ (q = p /\ m = n)
    <2> SUFFICES ASSUME NEW m \in Node, NEW q \in Text(log'[m])
                 PROVE  q \in Text(log[m]) \/ (q = p /\ m = n)
      OBVIOUS
    <2>1. CASE m = n
      BY <1>5, <2>1
    <2>2. CASE m # n
      <3>1. log'[m] = log[m]
        BY <1>2, <2>2
      <3> QED
        BY <3>1
    <2> QED
      BY <2>1, <2>2
  <1>11. ASSUME NEW x \in End, NEW y \in Text(stream'[x])
         PROVE  /\ Away(x, y.src) /\ y \in Text(log'[At(x)])
                /\ \A q \in Text(log'[At(Far(x))]) : y.src = q.src => q.no < y.no
    <2>1. CASE y \in Text(stream[x])
      <3>1. /\ At(x) \in Node /\ At(Far(x)) \in Node /\ remote[x.by] # None
            /\ Away(x, y.src) /\ y \in Text(log[At(x)])
            /\ \A q \in Text(log[At(Far(x))]) : y.src = q.src => q.no < y.no
        BY <2>1, FlowFacts
      <3>2. ASSUME NEW q \in Text(log'[At(Far(x))]), y.src = q.src, q \notin Text(log[At(Far(x))])
            PROVE  q.no < y.no
        <4>1. q = p /\ At(Far(x)) = n
          BY <1>10, <3>1, <3>2
        <4>2. x = d
          BY <1>2, <3>1, <3>2, <4>1
        <4> QED
          BY <1>6, <1>11, <3>2, <4>1, <4>2
      <3> QED
        BY <1>8, <3>1, <3>2
    <2>2. CASE y \notin Text(stream[x])
      <3>1. y = p /\ x \in to
        BY <1>9, <1>11, <2>2
      <3>2. At(x) = n /\ At(Far(x)) # n /\ At(Far(x)) \in Node /\ Away(x, p.src) /\ remote[x.by] # None
        BY <1>2, <3>1
      <3>3. p \in Text(log'[n])
        BY <1>5
      <3>4. ASSUME NEW q \in Text(log'[At(Far(x))]), p.src = q.src
            PROVE  q.no < p.no
        <4>1. q \in Text(log[At(Far(x))])
          BY <1>10, <3>2, <3>4
        <4>2. q \in Text(log[n])
          BY <3>2, <3>4, <4>1, FlowFacts
        <4> QED
          BY <1>2, <3>4, <4>2
      <3> QED
        BY <3>1, <3>2, <3>3, <3>4
    <2> QED
      BY <2>1, <2>2
  <1>12. ASSUME NEW x \in End, remote[x.by] # None, NEW q \in Text(log'[At(Far(x))]), Away(x, q.src)
         PROVE  q \in Text(log'[At(x)])
    <2>1. At(x) \in Node /\ At(Far(x)) \in Node
      BY <1>12, AtFacts
    <2>2. CASE q \in Text(log[At(Far(x))])
      BY <1>8, <1>12, <2>1, <2>2, FlowFacts
    <2>3. CASE q \notin Text(log[At(Far(x))])
      <3>1. q = p /\ At(Far(x)) = n
        BY <1>10, <1>12, <2>1, <2>3
      <3>2. x = d
        BY <1>2, <1>12, <3>1
      <3> QED
        BY <1>2, <3>1, <3>2
    <2> QED
      BY <2>2, <2>3
  <1>13. ASSUME NEW m \in Node, NEW q \in Text(log'[m])
         PROVE  q.no > 0 /\ q.no <= typed[q.src] /\ Joined(m, q.src)
    <2>1. CASE q \in Text(log[m])
      BY <2>1, FlowFacts
    <2>2. CASE q = p /\ m = n
      <3>1. p.no > 0 /\ p.no <= typed[p.src] /\ Joined(At(d), p.src)
        BY <1>2, FlowFacts
      <3>2. Joined(n, p.src)
        BY <1>2, <3>1, JoinedAcross
      <3> QED
        BY <2>2, <3>1, <3>2
    <2> QED
      BY <1>10, <1>13, <2>1, <2>2
  <1>14. \A x \in End : Ordered(stream'[x])
    BY <1>2, <1>6, <1>7, FlowFacts
  <1>15. \A m \in Node : Ordered(log'[m])
    BY <1>2, <1>5, FlowFacts
  <1> QED
    BY <1>3, <1>4, <1>11, <1>12, <1>13, <1>14, <1>15 DEF Flow

\* What is lost is a tail.
LEMMA FlowClose ==
    ASSUME TypeOK, Sizes, Flow, \/ \E e \in End : Drop(e)
                                \/ \E n \in Node : Exit(n)
    PROVE  Flow'
  <1>1. /\ \A e \in End : \E k \in Nat : k <= Len(stream[e]) /\ stream'[e] = SubSeq(stream[e], 1, k)
        /\ UNCHANGED <<remote, typed, log, anc>>
    BY CloseEffect
  <1>2. /\ \A e : At(e)' = At(e)
        /\ \A e, s : Away(e, s)' <=> Away(e, s)
        /\ \A n, s : Joined(n, s)' <=> Joined(n, s)
    BY <1>1, Steady
  <1>3. ASSUME NEW e \in End
        PROVE  Text(stream'[e]) \subseteq Text(stream[e]) /\ Ordered(stream'[e])
    <2>1. PICK k \in Nat : k <= Len(stream[e]) /\ stream'[e] = SubSeq(stream[e], 1, k)
      BY <1>1
    <2>2. stream[e] \in Seq(Piece) /\ Ordered(stream[e])
      BY DEF TypeOK, Flow
    <2> QED
      BY <2>1, <2>2, PrefixText
  <1> QED
    BY <1>1, <1>2, <1>3 DEF Flow

LEMMA FlowStep ==
    ASSUME TypeOK, Sizes, NoRing, Forest, Flow, [Next]_vars, NoRing'
    PROVE  Flow'
  <1>1. CASE \E n \in Node : TypeLine(n)
    BY <1>1, FlowType
  <1>2. CASE \E n, r \in Node : StartDial(n, r)
    BY <1>2, FlowDial
  <1>3. CASE \E e \in End : ReadPiece(e)
    BY <1>3, FlowRead
  <1>4. CASE (\E e \in End : Drop(e)) \/ (\E n \in Node : Exit(n))
    BY <1>4, FlowClose
  <1>5. CASE UNCHANGED vars \/ \E n \in Node : Listen(n) \/ StartAlone(n) \/ StartFails(n)
    BY <1>5, FlowKept DEF vars, Listen, StartAlone, StartFails
  <1>6. CASE \E e \in End : Accept(e) \/ WritePiece(e)
    BY <1>6, FlowKept DEF Accept, WritePiece
  <1> QED
    BY <1>1, <1>2, <1>3, <1>4, <1>5, <1>6 DEF Next

-----------------------------------------------------------------------------
(* The first theorems.                                                     *)

LEMMA RoutingInit == Init => Routing
  <1> SUFFICES ASSUME Init PROVE Routing
    OBVIOUS
  <1>1. TypeOK /\ Sizes
    BY TypeInit
  <1>2. Forest
    BY NetAssumption DEF Init, Forest
  <1>3. /\ \A e \in End : stream[e] = <<>>
        /\ \A n \in Node : log[n] = <<>> /\ remote[n] = None
    BY DEF Init
  <1>4. Text(<<>>) = {} /\ Ordered(<<>>)
    BY DEF Text, Ordered
  <1>5. \A e \in End : e.by \in Node
    BY EndFacts
  <1>6. Flow
    BY <1>3, <1>4, <1>5 DEF Flow
  <1> QED
    BY <1>1, <1>2, <1>6 DEF Routing

LEMMA RoutingStep == Routing /\ [Next]_vars => Routing'
  <1> SUFFICES ASSUME Routing, [Next]_vars PROVE Routing'
    OBVIOUS
  <1>1. TypeOK' /\ Sizes'
    BY TypeStep DEF Routing
  <1>2. NoRing' => NoRing
    BY RingStays DEF Routing
  <1>3. NoRing' => Forest' /\ Flow'
    BY <1>2, ForestStep, FlowStep DEF Routing
  <1> QED
    BY <1>1, <1>3 DEF Routing

\* As long as no dial has closed a ring: the connections form a forest, in which
\* text only ever flows away from its sender and is newer than all that has
\* arrived, whoever exits and whatever connection is lost.
THEOREM Routes == Spec => []Routing
  <1>1. Init => Routing
    BY RoutingInit
  <1>2. Routing /\ [Next]_vars => Routing'
    BY RoutingStep
  <1> QED
    BY <1>1, <1>2, PTL DEF Spec

\* However many processes there are, whoever exits and whatever connection is
\* lost, as long as no dial has closed a ring: no user sees a piece twice, nobody
\* gets his own text back, and one sender's pieces are seen in order.
THEOREM OrderPerSender == Spec => []PerSenderOrder
  <1>1. Routing => PerSenderOrder
    BY DEF Routing, Flow, Ordered, PerSenderOrder
  <1> QED
    BY <1>1, Routes, PTL

-----------------------------------------------------------------------------
(* Before: the order of two pieces in a sequence.                          *)

\* Pieces of one sender that are ordered stand in the order of their numbers.
LEMMA OrderedBefore ==
    ASSUME NEW t \in Seq(Piece), Ordered(t), NEW p \in Piece, NEW q \in Piece,
           p.src = q.src, p.no < q.no
    PROVE  Before(t, p, q)
  BY DEF Ordered, Before, Piece

\* And conversely: of two pieces of one sender the one before is the older one.
LEMMA BeforeOrdered ==
    ASSUME NEW t \in Seq(Piece), Ordered(t), NEW p \in Text(t), NEW q \in Text(t),
           p.src = q.src, Before(t, p, q)
    PROVE  p.no < q.no
  BY DEF Ordered, Before, Text

\* The order of two pieces is the same after an older one has been taken away,
\* and the oldest piece has none before it.
LEMMA BeforeTail ==
    ASSUME NEW t \in Seq(Piece), t # <<>>, NEW p, NEW q, Before(t, p, q)
    PROVE  /\ Before(Tail(t), p, q)
           /\ q = Head(t) => p \notin Text(t)
  <1> DEFINE u == Tail(t)
  <1>1. /\ Len(u) = Len(t) - 1 /\ Len(t) \in Nat
        /\ \A i \in 1..Len(u) : i + 1 \in 1..Len(t) /\ u[i] = t[i + 1]
        /\ Head(t) = t[1] /\ 1 \in 1..Len(t)
    OBVIOUS
  <1> HIDE DEF u
  <1>2. Before(u, p, q)
    <2> SUFFICES ASSUME NEW i \in 1..Len(u), NEW j \in 1..Len(u), u[i] = p, u[j] = q
                 PROVE  i < j
      BY DEF Before
    <2>1. i + 1 \in 1..Len(t) /\ t[i + 1] = p /\ j + 1 \in 1..Len(t) /\ t[j + 1] = q
      BY <1>1
    <2>2. i + 1 < j + 1
      BY <2>1 DEF Before
    <2> QED
      BY <1>1, <2>2
  <1>3. ASSUME q = Head(t), p \in Text(t)
        PROVE  FALSE
    <2>1. PICK i \in 1..Len(t) : t[i] = p
      BY <1>3 DEF Text
    <2>2. i < 1
      BY <1>1, <1>3, <2>1 DEF Before
    <2> QED
      BY <1>1, <2>2
  <1> QED
    BY <1>2, <1>3 DEF u

\* Nor does it change when the newest are cut off.
LEMMA BeforePrefix ==
    ASSUME NEW t \in Seq(Piece), NEW k \in Nat, k <= Len(t), NEW p, NEW q, Before(t, p, q)
    PROVE  Before(SubSeq(t, 1, k), p, q)
  <1> DEFINE u == SubSeq(t, 1, k)
  <1>1. Len(u) = k /\ Len(t) \in Nat /\ \A i \in 1..k : i \in 1..Len(t) /\ u[i] = t[i]
    OBVIOUS
  <1> HIDE DEF u
  <1>2. Before(u, p, q)
    BY <1>1 DEF Before
  <1> QED
    BY <1>2 DEF u

\* What is appended stands after what was there, so only an appended p can
\* come out of order.
LEMMA BeforeConcat ==
    ASSUME NEW t \in Seq(Piece), NEW l \in Seq(Piece), NEW p, NEW q
    PROVE  /\ Before(t \o l, p, q) => Before(t, p, q)
           /\ Before(t, p, q) /\ p \notin Text(l) => Before(t \o l, p, q)
  <1> DEFINE u == t \o l
  <1>1. /\ Len(t) \in Nat /\ Len(l) \in Nat /\ Len(u) = Len(t) + Len(l)
        /\ \A i \in 1..Len(t) : i \in 1..Len(u) /\ u[i] = t[i]
        /\ \A i \in 1..Len(u) : i \notin 1..Len(t) => i - Len(t) \in 1..Len(l) /\ u[i] = l[i - Len(t)]
    OBVIOUS
  <1> HIDE DEF u
  <1>2. Before(u, p, q) => Before(t, p, q)
    BY <1>1 DEF Before
  <1>3. ASSUME Before(t, p, q), p \notin Text(l)
        PROVE  Before(u, p, q)
    <2> SUFFICES ASSUME NEW i \in 1..Len(u), NEW j \in 1..Len(u), u[i] = p, u[j] = q
                 PROVE  i < j
      BY DEF Before
    <2>1. i \in 1..Len(t) /\ t[i] = p
      BY <1>1, <1>3 DEF Text
    <2>2. CASE j \in 1..Len(t)
      <3>1. t[j] = q
        BY <1>1, <2>2
      <3> QED
        BY <1>3, <2>1, <2>2, <3>1 DEF Before
    <2>3. CASE j \notin 1..Len(t)
      BY <1>1, <2>1, <2>3
    <2> QED
      BY <2>2, <2>3
  <1> QED
    BY <1>2, <1>3 DEF u

\* The same for one piece, which stands after all others.
LEMMA BeforeAppend ==
    ASSUME NEW t \in Seq(Piece), NEW x \in Piece, NEW p, NEW q
    PROVE  /\ Before(Append(t, x), p, q) => Before(t, p, q)
           /\ Before(Append(t, x), p, q) /\ q \in Text(t) => p # x
           /\ Before(t, p, q) /\ p # x => Before(Append(t, x), p, q)
  <1> DEFINE u == Append(t, x)
  <1>1. /\ Len(t) \in Nat /\ Len(u) = Len(t) + 1 /\ Len(u) \in 1..Len(u) /\ u[Len(u)] = x
        /\ \A i \in 1..Len(t) : i \in 1..Len(u) /\ u[i] = t[i]
        /\ \A i \in 1..Len(u) : i = Len(u) \/ i \in 1..Len(t)
    OBVIOUS
  <1> HIDE DEF u
  <1>2. Before(u, p, q) => Before(t, p, q)
    BY <1>1 DEF Before
  <1>3. ASSUME Before(u, p, q), q \in Text(t)
        PROVE  p # x
    <2>1. PICK j \in 1..Len(t) : t[j] = q
      BY <1>3 DEF Text
    <2>2. p = x => Len(u) < j
      BY <1>1, <1>3, <2>1 DEF Before
    <2> QED
      BY <1>1, <2>1, <2>2
  <1>4. Before(t, p, q) /\ p # x => Before(u, p, q)
    BY <1>1 DEF Before
  <1> QED
    BY <1>2, <1>3, <1>4 DEF u

\* A piece that is not there is before none and after none, and one that is
\* there is not before itself.
LEMMA BeforeAbsent ==
    ASSUME NEW t, NEW p, NEW q, p \notin Text(t) \/ q \notin Text(t)
    PROVE  Before(t, p, q)
  BY DEF Before, Text

\* No piece stands before itself.
LEMMA BeforeItself ==
    ASSUME NEW t \in Seq(Piece), NEW p \in Text(t)
    PROVE  ~Before(t, p, p)
  <1>1. PICK i \in 1..Len(t) : t[i] = p
    BY DEF Text
  <1>2. Before(t, p, p) => i < i
    BY <1>1 DEF Before
  <1> QED
    BY <1>2

-----------------------------------------------------------------------------
(* Causal order.                                                           *)

\* s typed q when it had seen p.
Answers(s, p, q) ==
    s \in Node /\ p \in Text(log[s]) /\ q \in Text(log[s]) /\ q.src = s /\ Before(log[s], p, q)

\* What causal order asks at the end e for such a p and q.
InOrder(e, s, p, q) ==
    /\ Before(stream[e], p, q)
    /\ remote[e.by] # None /\ q \in Text(log[At(Far(e))]) =>
          /\ p \notin Text(stream[e])
          /\ Away(e, s) /\ Away(Far(e), p.src) => p \in Text(log[At(Far(e))])

\* Causal in these words, for use and for proof.
LEMMA CausalWords ==
    Causal <=> \A s, p, q : Answers(s, p, q) =>
                  /\ \A n \in Node : Before(log[n], p, q)
                  /\ \A e \in End : InOrder(e, s, p, q)
  BY DEF Causal, Answers, InOrder

\* If p had been seen when q was typed, and q has come to the end e, then p has
\* been at its far end, if that lies between e and the sender of p.
LEMMA Between ==
    ASSUME TypeOK, Sizes, NoRing, Forest, Flow, Arrived, Causal,
           NEW s, NEW p, NEW q, Answers(s, p, q),
           NEW e \in End, remote[e.by] # None, q \in Text(log[At(e)]),
           Away(e, s), Away(Far(e), p.src)
    PROVE  p \in Text(log[At(Far(e))])
  <1>1. s \in Node /\ p.src \in Node /\ q.src = s /\ p \in Text(log[s])
    BY FlowFacts DEF Answers
  <1>2. /\ Far(e) \in End /\ Far(Far(e)) = e /\ Far(e).by = e.by
        /\ At(e) \in Node /\ At(Far(e)) \in Node
        /\ ~Away(Far(e), s)
    BY EndFacts, AtFacts
  <1>3. p \in Text(log[At(e)])
    <2>1. CASE At(e) = s
      BY <1>1, <2>1
    <2>2. CASE At(e) # s
      <3>1. PICK c \in End : remote[c.by] # None /\ At(Far(c)) = At(e) /\ Away(c, s)
        BY <1>1, <1>2, <2>2 DEF Arrived
      <3>2. Far(c) \in End /\ Far(Far(c)) = c /\ Far(c).by = c.by
        BY EndFacts
      <3>3. Far(c) # e
        BY <1>2, <3>1, <3>2
      <3>4. Away(Far(c), p.src)
        BY <1>1, <1>2, <3>1, <3>2, <3>3, Onward
      <3>5. InOrder(c, s, p, q)
        BY CausalWords
      <3> QED
        BY <3>1, <3>4, <3>5 DEF InOrder
    <2> QED
      BY <2>1, <2>2
  <1>4. \A d \in End : remote[d.by] # None =>
           \A x \in Text(log[At(Far(d))]) : Away(d, x.src) => x \in Text(log[At(d)])
    BY DEF Flow
  <1>5. remote[Far(e).by] # None /\ p \in Text(log[At(Far(Far(e)))])
    BY <1>2, <1>3
  <1> QED
    BY <1>2, <1>4, <1>5

\* A relayed piece arrives after what it answers, and before what answers it.
LEMMA CausalRead ==
    ASSUME TypeOK, Sizes, NoRing, Forest, Flow, Arrived, Causal, NEW e \in End, ReadPiece(e)
    PROVE  Arrived' /\ Causal'
  <1>1. PICK d \in End, n \in Node, to \in SUBSET End, x \in Piece : Relays(e, d, n, to, x)
    BY ReadPieceEffect
  <1> Passes(e, d, n, to, x)
    BY <1>1, RelayFacts
  <1>2. /\ n = At(Far(d)) /\ At(d) \in Node /\ At(d) # n /\ d \notin to /\ remote[d.by] # None
        /\ x \in Text(stream[d]) /\ x.src \in Node /\ Away(d, x.src) /\ x \in Text(log[At(d)])
        /\ x.src # n
        /\ \A q \in Text(log[n]) : q.src = x.src => q.no < x.no
        /\ stream[d] \in Seq(Piece) /\ stream[d] # <<>> /\ x = Head(stream[d])
        /\ stream'[d] = Tail(stream[d])
        /\ \A y \in End : remote[y.by] # None /\ At(Far(y)) = n /\ Away(y, x.src) => y = d
        /\ \A f \in to : /\ f # d /\ remote[f.by] # None
                         /\ At(f) = n /\ At(Far(f)) # n /\ At(Far(f)) \in Node
                         /\ Away(f, x.src)
                         /\ stream'[f] = Append(stream[f], x)
        /\ \A f \in End : f # d /\ f \notin to => stream'[f] = stream[f]
        /\ log'[n] = Append(log[n], x)
        /\ \A a \in Node \ {n} : log'[a] = log[a]
    BY DEF Passes
  <1>3. UNCHANGED <<remote, anc>>
    BY DEF ReadPiece, ReadPieceTo
  <1>4. /\ \A f : At(f)' = At(f)
        /\ \A f, s : Away(f, s)' <=> Away(f, s)
    BY <1>3, Steady
  <1>5. /\ \A a \in Node : log[a] \in Seq(Piece)
        /\ \A f \in End : stream[f] \in Seq(Piece)
    BY DEF TypeOK
  <1>6. x \notin Text(log[n])
    BY <1>2, FlowFacts
  <1>7. Text(log'[n]) = Text(log[n]) \cup {x}
    BY <1>2, <1>5, AppendText
  <1>8. ASSUME NEW a \in Node
        PROVE  /\ Text(log[a]) \subseteq Text(log'[a])
               /\ \A q \in Text(log'[a]) : q \in Text(log[a]) \/ (a = n /\ q = x)
    <2>1. CASE a = n
      BY <1>7, <2>1
    <2>2. CASE a # n
      <3>1. log'[a] = log[a]
        BY <1>2, <2>2
      <3> QED
        BY <3>1
    <2> QED
      BY <2>1, <2>2
  <1>9. ASSUME NEW f \in to
        PROVE  Text(stream'[f]) = Text(stream[f]) \cup {x}
    <2>1. stream'[f] = Append(stream[f], x) /\ stream[f] \in Seq(Piece)
      BY <1>2, <1>5
    <2> QED
      BY <2>1, AppendText
  <1>10. ASSUME NEW c \in End, NEW q \in Text(stream'[c])
         PROVE  q \in Text(stream[c]) \/ (c \in to /\ q = x)
    <2>1. CASE c = d
      BY <1>2, <1>10, <2>1, TailText
    <2>2. CASE c \in to
      BY <1>9, <1>10, <2>2
    <2>3. CASE c # d /\ c \notin to
      <3>1. stream'[c] = stream[c]
        BY <1>2, <2>3
      <3> QED
        BY <1>10, <3>1
    <2> QED
      BY <2>1, <2>2, <2>3
  <1>11. Arrived'
    <2> SUFFICES ASSUME NEW a \in Node, NEW q \in Text(log'[a]), q.src # a
                 PROVE  \E c \in End : remote[c.by] # None /\ At(Far(c)) = a /\ Away(c, q.src)
      BY <1>3, <1>4 DEF Arrived
    <2>1. CASE q \in Text(log[a])
      BY <2>1 DEF Arrived
    <2>2. CASE a = n /\ q = x
      BY <1>2, <2>2
    <2> QED
      BY <1>8, <2>1, <2>2
  <1>12. ASSUME NEW s, NEW p, NEW q, Answers(s, p, q)'
         PROVE  Answers(s, p, q) /\ p # q
    <2>1. s \in Node /\ p \in Text(log'[s]) /\ q \in Text(log'[s]) /\ q.src = s /\ Before(log'[s], p, q)
      BY <1>12 DEF Answers
    <2>2. CASE s # n
      <3>1. log'[s] = log[s] /\ log[s] \in Seq(Piece)
        BY <1>2, <1>5, <2>1, <2>2
      <3>2. p \in Text(log[s]) /\ q \in Text(log[s]) /\ Before(log[s], p, q)
        BY <2>1, <3>1
      <3> QED
        BY <2>1, <3>1, <3>2, BeforeItself DEF Answers
    <2>3. CASE s = n
      <3>1. q \in Text(log[n])
        BY <1>2, <1>8, <2>1, <2>3
      <3>2. Before(Append(log[n], x), p, q) /\ log[n] \in Seq(Piece)
        BY <1>2, <1>5, <2>1, <2>3
      <3>3. Before(log[n], p, q) /\ p # x
        BY <3>1, <3>2, BeforeAppend
      <3>4. p \in Text(log[n])
        BY <1>8, <2>1, <2>3, <3>3
      <3> QED
        BY <2>1, <2>3, <3>1, <3>2, <3>3, <3>4, BeforeItself DEF Answers
    <2> QED
      BY <2>2, <2>3
  <1>13. ASSUME NEW s, NEW p, NEW q, Answers(s, p, q)'
         PROVE  /\ \A a \in Node : Before(log'[a], p, q)
                /\ \A c \in End : InOrder(c, s, p, q)'
    <2>1. Answers(s, p, q) /\ p # q /\ s \in Node /\ p.src \in Node /\ q.src = s
      BY <1>12, <1>13, FlowFacts DEF Answers
    <2>2. /\ \A a \in Node : Before(log[a], p, q)
          /\ \A c \in End : InOrder(c, s, p, q)
      BY <2>1, CausalWords
    \* When p is read, q is not here: p was on its way.
    <2>3. p = x => q \notin Text(log[n]) /\ q \notin Text(log'[n])
      <3>1. remote[d.by] # None /\ q \in Text(log[At(Far(d))]) => p \notin Text(stream[d])
        BY <2>2 DEF InOrder
      <3> QED
        BY <1>2, <1>7, <2>1, <3>1
    <2>4. ASSUME NEW a \in Node PROVE Before(log'[a], p, q)
      <3>1. CASE a # n
        BY <1>2, <2>2, <3>1
      <3>2. CASE a = n /\ p # x
        <4>1. Before(log[n], p, q) /\ log[n] \in Seq(Piece)
          BY <1>5, <2>2
        <4>2. Before(Append(log[n], x), p, q)
          BY <3>2, <4>1, BeforeAppend
        <4> QED
          BY <1>2, <3>2, <4>2
      <3>3. CASE a = n /\ p = x
        BY <2>3, <3>3, BeforeAbsent
      <3> QED
        BY <3>1, <3>2, <3>3
    <2>5. ASSUME NEW c \in End PROVE Before(stream'[c], p, q)
      <3>0. Before(stream[c], p, q) /\ stream[c] \in Seq(Piece)
        BY <1>5, <2>2 DEF InOrder
      <3>1. CASE c = d
        BY <1>2, <3>0, <3>1, BeforeTail
      <3>2. CASE c \in to /\ p # x
        <4>1. Before(Append(stream[c], x), p, q)
          BY <3>0, <3>2, BeforeAppend
        <4> QED
          BY <1>2, <3>2, <4>1
      <3>3. CASE c \in to /\ p = x
        <4>1. q \notin Text(stream[c])
          <5>1. At(c) = n
            BY <1>2, <3>3
          <5> QED
            BY <2>3, <3>3, <5>1, FlowFacts
        <4>2. q \notin Text(stream'[c])
          BY <1>9, <2>1, <3>3, <4>1
        <4> QED
          BY <4>2, BeforeAbsent
      <3>4. CASE c # d /\ c \notin to
        BY <1>2, <3>0, <3>4
      <3> QED
        BY <3>1, <3>2, <3>3, <3>4
    <2>6. ASSUME NEW c \in End, remote[c.by] # None, q \in Text(log'[At(Far(c))])
          PROVE  p \notin Text(stream'[c])
      <3> SUFFICES ASSUME p \in Text(stream'[c]) PROVE FALSE
        OBVIOUS
      <3>0. /\ At(c) \in Node /\ At(Far(c)) \in Node
            /\ Far(c) \in End /\ Far(Far(c)) = c /\ Far(c).by = c.by
        BY <2>6, AtFacts, EndFacts
      <3>1. CASE q \in Text(log[At(Far(c))]) /\ p \in Text(stream[c])
        BY <2>2, <2>6, <3>1 DEF InOrder
      \* p is passed on to one who has q: p has been here before.
      <3>2. CASE q \in Text(log[At(Far(c))]) /\ c \in to /\ p = x
        <4>1. Away(c, p.src) /\ At(c) = n
          BY <1>2, <3>2
        <4>2. q \notin Text(log[n])
          BY <2>3, <3>2
        <4>3. ~Away(c, s)
          BY <2>1, <2>6, <3>2, <4>1, <4>2, FlowFacts
        <4>4. Away(Far(c), s)
          BY <4>3, EndFacts
        <4>5. p \in Text(log[At(Far(Far(c)))])
          BY <2>1, <2>6, <3>0, <3>2, <4>1, <4>4, Between
        <4> QED
          BY <1>6, <3>0, <3>2, <4>1, <4>5
      \* q is read, and p on its way here from another side.
      <3>3. CASE At(Far(c)) = n /\ q = x /\ p \in Text(stream[c])
        <4>1. Away(c, p.src) /\ p \notin Text(log[n])
          BY <3>3, FlowFacts
        <4>2. CASE c = d
          <5>1. Before(stream[d], p, q)
            BY <2>2 DEF InOrder
          <5> QED
            BY <1>2, <3>3, <4>2, <5>1, BeforeTail
        <4>3. CASE c # d
          <5>1. Away(d, s) /\ q \in Text(log[At(d)])
            BY <1>2, <2>1, <3>3
          <5>2. /\ Far(d) \in End /\ Far(d).by = d.by /\ Far(Far(d)) = d
            BY EndFacts
          <5>3. Far(d) # Far(c)
            BY <3>0, <4>3, <5>2
          <5>4. Away(Far(d), p.src)
            BY <1>2, <2>1, <2>6, <3>3, <4>1, <5>2, <5>3, Onward
          <5>5. p \in Text(log[At(Far(d))])
            BY <1>2, <2>1, <5>1, <5>4, Between
          <5> QED
            BY <1>2, <4>1, <5>5
        <4> QED
          BY <4>2, <4>3
      <3>4. c \in to => At(Far(c)) # n
        BY <1>2
      <3>5. q \in Text(log[At(Far(c))]) \/ (At(Far(c)) = n /\ q = x)
        BY <1>8, <2>6, <3>0
      <3>6. p \in Text(stream[c]) \/ (c \in to /\ p = x)
        BY <1>10
      <3> QED
        BY <3>1, <3>2, <3>3, <3>4, <3>5, <3>6
    <2>7. ASSUME NEW c \in End, remote[c.by] # None, q \in Text(log'[At(Far(c))]),
                 Away(c, s), Away(Far(c), p.src)
          PROVE  p \in Text(log'[At(Far(c))])
      <3>0. At(Far(c)) \in Node
        BY <2>7, AtFacts
      <3>1. CASE q \in Text(log[At(Far(c))])
        <4>1. p \in Text(log[At(Far(c))])
          BY <2>2, <2>7, <3>1 DEF InOrder
        <4> QED
          BY <1>8, <3>0, <4>1
      <3>2. CASE At(Far(c)) = n /\ q = x
        <4>1. c = d /\ q \in Text(log[At(d)])
          BY <1>2, <2>1, <2>7, <3>2
        <4>2. p \in Text(log[At(Far(c))])
          BY <2>1, <2>7, <4>1, Between
        <4> QED
          BY <1>8, <3>0, <4>2
      <3> QED
        BY <1>8, <2>7, <3>0, <3>1, <3>2
    <2>8. ASSUME NEW c \in End PROVE InOrder(c, s, p, q)'
      <3>1. Far(c)' = Far(c) /\ At(Far(c))' = At(Far(c))
        BY <1>4 DEF Far
      <3>2. Before(stream'[c], p, q)
        BY <2>5
      <3>3. remote'[c.by] # None /\ q \in Text(log'[At(Far(c))]) =>
               /\ p \notin Text(stream'[c])
               /\ Away(c, s) /\ Away(Far(c), p.src) => p \in Text(log'[At(Far(c))])
        BY <1>3, <2>6, <2>7
      <3>4. (Away(c, s)' <=> Away(c, s)) /\ (Away(Far(c), p.src)' <=> Away(Far(c), p.src))
        BY <1>4
      <3> QED
        BY <3>1, <3>2, <3>3, <3>4 DEF InOrder
    <2> QED
      BY <2>4, <2>8
  <1>14. Causal'
    <2>1. \A s, p, q : Answers(s, p, q)' =>
             /\ \A a \in Node : Before(log'[a], p, q)
             /\ \A c \in End : InOrder(c, s, p, q)'
      BY <1>13
    <2> QED
      BY <2>1 DEF Causal, Answers, InOrder
  <1> QED
    BY <1>11, <1>14

\* What a typed line changes, in sets of pieces: it is nowhere before.
LEMMA TypeFacts ==
    ASSUME TypeOK, Sizes, NoRing, Forest, Flow, NEW n \in Node, TypeLine(n)
    PROVE  \E len \in 1..LineLen : \E l \in Seq(Piece) :
              /\ l = Line(n, typed[n], len)
              /\ typed' = [typed EXCEPT ![n] = @ + len]
              /\ \A q \in Text(l) : q.src = n /\ q.no > typed[n] /\ q \in Piece
              /\ log'[n] = log[n] \o l
              /\ \A a \in Node \ {n} : log'[a] = log[a]
              /\ \A c \in PeersOf(n) : c \in End /\ stream'[c] = stream[c] \o l
              /\ \A c \in End : c \notin PeersOf(n) => stream'[c] = stream[c]
              /\ \A a \in Node : \A q \in Text(log[a]) : q \notin Text(l)
              /\ \A c \in End : \A q \in Text(stream[c]) : q \notin Text(l)
              /\ \A a \in Node : /\ Text(log[a]) \subseteq Text(log'[a])
                                 /\ \A q \in Text(log'[a]) :
                                       q \in Text(log[a]) \/ (a = n /\ q \in Text(l))
              /\ \A c \in End : \A q \in Text(stream'[c]) :
                    q \in Text(stream[c]) \/ (c \in PeersOf(n) /\ q \in Text(l))
              /\ log' \in [Node -> Seq(Piece)] /\ stream' \in [End -> Seq(Piece)]
  <1>1. PICK len \in 1..LineLen :
           /\ typed' = [typed EXCEPT ![n] = @ + len]
           /\ log' \in [Node -> Seq(Piece)]
           /\ log'[n] = log[n] \o Line(n, typed[n], len)
           /\ \A a \in Node \ {n} : log'[a] = log[a]
           /\ stream' \in [End -> Seq(Piece)]
           /\ \A e \in PeersOf(n) : stream'[e] = stream[e] \o Line(n, typed[n], len)
           /\ \A e \in End : e \notin PeersOf(n) => stream'[e] = stream[e]
    BY TypeLineEffect
  <1>2. len \in Nat /\ typed[n] \in Nat
    BY NetAssumption DEF TypeOK
  <1> DEFINE l == Line(n, typed[n], len)
  <1>3. /\ l \in Seq(Piece) /\ l = Line(n, typed[n], len)
        /\ \A q \in Text(l) : q.src = n /\ q.no > typed[n] /\ q \in Piece
    BY <1>2, LineText, TextType
  <1>4. /\ log'[n] = log[n] \o l
        /\ \A m \in PeersOf(n) : stream'[m] = stream[m] \o l
    BY <1>1
  <1> HIDE DEF l
  <1>5. PeersOf(n) \subseteq End
    BY DEF PeersOf, TypeOK
  <1>6. \A a \in Node : \A q \in Text(log[a]) : q \notin Text(l)
    <2> SUFFICES ASSUME NEW a \in Node, NEW q \in Text(log[a]), q \in Text(l) PROVE FALSE
      OBVIOUS
    <2>1. q.src = n /\ q.no > typed[n]
      BY <1>3
    <2>2. q.no \in Nat /\ q.no <= typed[q.src]
      BY FlowFacts
    <2> QED
      BY <1>2, <2>1, <2>2
  <1>7. \A c \in End : \A q \in Text(stream[c]) : q \notin Text(l)
    BY <1>6, FlowFacts
  <1>8. ASSUME NEW t \in Seq(Piece)
        PROVE  Text(t \o l) = Text(t) \cup Text(l)
    <2> DEFINE u == t \o l
    <2>1. /\ Len(t) \in Nat /\ Len(l) \in Nat /\ Len(u) = Len(t) + Len(l)
          /\ \A i \in 1..Len(t) : i \in 1..Len(u) /\ u[i] = t[i]
          /\ \A i \in 1..Len(u) : i \notin 1..Len(t) => i - Len(t) \in 1..Len(l) /\ u[i] = l[i - Len(t)]
          /\ \A i \in 1..Len(l) : Len(t) + i \in 1..Len(u) /\ u[Len(t) + i] = l[i]
      BY <1>3
    <2> HIDE DEF u
    <2>2. \A i \in 1..Len(u) : u[i] \in Text(t) \cup Text(l)
      BY <2>1 DEF Text
    <2>3. /\ \A i \in 1..Len(t) : t[i] \in Text(u)
          /\ \A i \in 1..Len(l) : l[i] \in Text(u)
      BY <2>1 DEF Text
    <2>4. Text(u) = Text(t) \cup Text(l)
      BY <2>2, <2>3 DEF Text
    <2> QED
      BY <2>4 DEF u
  <1>9. ASSUME NEW a \in Node
        PROVE  /\ Text(log[a]) \subseteq Text(log'[a])
               /\ \A q \in Text(log'[a]) : q \in Text(log[a]) \/ (a = n /\ q \in Text(l))
    <2>1. CASE a = n
      <3>1. log[n] \in Seq(Piece)
        BY DEF TypeOK
      <3> QED
        BY <1>4, <1>8, <2>1, <3>1
    <2>2. CASE a # n
      <3>1. log'[a] = log[a]
        BY <1>1, <2>2
      <3> QED
        BY <3>1
    <2> QED
      BY <2>1, <2>2
  <1>10. ASSUME NEW c \in End, NEW q \in Text(stream'[c])
         PROVE  q \in Text(stream[c]) \/ (c \in PeersOf(n) /\ q \in Text(l))
    <2>1. CASE c \in PeersOf(n)
      <3>1. stream'[c] = stream[c] \o l /\ stream[c] \in Seq(Piece)
        BY <1>4, <2>1 DEF TypeOK
      <3> QED
        BY <1>8, <1>10, <2>1, <3>1
    <2>2. CASE c \notin PeersOf(n)
      <3>1. stream'[c] = stream[c]
        BY <1>1, <2>2
      <3> QED
        BY <1>10, <3>1
    <2> QED
      BY <2>1, <2>2
  <1> QED
    BY <1>1, <1>3, <1>4, <1>5, <1>6, <1>7, <1>9, <1>10

\* A typed line answers what its sender has seen; nobody else has it yet.
LEMMA CausalType ==
    ASSUME TypeOK, Sizes, NoRing, Forest, Flow, Arrived, Causal, NEW n \in Node, TypeLine(n), Flow'
    PROVE  Arrived' /\ Causal'
  <1>1. PICK len \in 1..LineLen : \E l \in Seq(Piece) :
              /\ \A q \in Text(l) : q.src = n /\ q.no > typed[n] /\ q \in Piece
              /\ log'[n] = log[n] \o l
              /\ \A a \in Node \ {n} : log'[a] = log[a]
              /\ \A c \in PeersOf(n) : c \in End /\ stream'[c] = stream[c] \o l
              /\ \A c \in End : c \notin PeersOf(n) => stream'[c] = stream[c]
              /\ \A a \in Node : \A q \in Text(log[a]) : q \notin Text(l)
              /\ \A c \in End : \A q \in Text(stream[c]) : q \notin Text(l)
              /\ \A a \in Node : /\ Text(log[a]) \subseteq Text(log'[a])
                                 /\ \A q \in Text(log'[a]) :
                                       q \in Text(log[a]) \/ (a = n /\ q \in Text(l))
              /\ \A c \in End : \A q \in Text(stream'[c]) :
                    q \in Text(stream[c]) \/ (c \in PeersOf(n) /\ q \in Text(l))
              /\ log' \in [Node -> Seq(Piece)] /\ stream' \in [End -> Seq(Piece)]
    BY TypeFacts
  <1>2. PICK l \in Seq(Piece) :
              /\ \A q \in Text(l) : q.src = n /\ q.no > typed[n] /\ q \in Piece
              /\ log'[n] = log[n] \o l
              /\ \A a \in Node \ {n} : log'[a] = log[a]
              /\ \A c \in PeersOf(n) : c \in End /\ stream'[c] = stream[c] \o l
              /\ \A c \in End : c \notin PeersOf(n) => stream'[c] = stream[c]
              /\ \A a \in Node : \A q \in Text(log[a]) : q \notin Text(l)
              /\ \A c \in End : \A q \in Text(stream[c]) : q \notin Text(l)
              /\ \A a \in Node : /\ Text(log[a]) \subseteq Text(log'[a])
                                 /\ \A q \in Text(log'[a]) :
                                       q \in Text(log[a]) \/ (a = n /\ q \in Text(l))
              /\ \A c \in End : \A q \in Text(stream'[c]) :
                    q \in Text(stream[c]) \/ (c \in PeersOf(n) /\ q \in Text(l))
              /\ log' \in [Node -> Seq(Piece)] /\ stream' \in [End -> Seq(Piece)]
    BY <1>1
  <1>3. UNCHANGED <<remote, anc>>
    BY DEF TypeLine
  <1>4. /\ \A f : At(f)' = At(f)
        /\ \A f, s : Away(f, s)' <=> Away(f, s)
    BY <1>3, Steady
  <1>5. /\ \A a \in Node : log[a] \in Seq(Piece) /\ log'[a] \in Seq(Piece)
        /\ \A c \in End : stream[c] \in Seq(Piece) /\ stream'[c] \in Seq(Piece)
        /\ typed[n] \in Nat
    BY <1>2 DEF TypeOK
  <1>6. /\ \A a \in Node : Ordered(log'[a])
        /\ \A c \in End : Ordered(stream'[c])
        /\ \A c \in End : \A q \in Text(stream'[c]) : q.no \in Nat =>
              q \in Text(log'[At(c)]) /\ q \notin Text(log'[At(Far(c))])
    <2>1. \A c : Far(c)' = Far(c) /\ At(Far(c))' = At(Far(c))
      BY <1>4 DEF Far
    <2>2. \A c \in End : \A q \in Text(stream'[c]) :
             /\ q \in Text(log'[At(c)])
             /\ \A y \in Text(log'[At(Far(c))]) : q.src = y.src => y.no < q.no
      BY <1>4, <2>1 DEF Flow
    <2>3. \A a \in Node : Ordered(log'[a])
      BY DEF Flow
    <2>4. \A c \in End : Ordered(stream'[c])
      BY DEF Flow
    <2> QED
      BY <2>2, <2>3, <2>4
  <1>7. Arrived'
    <2> SUFFICES ASSUME NEW a \in Node, NEW q \in Text(log'[a]), q.src # a
                 PROVE  \E c \in End : remote[c.by] # None /\ At(Far(c)) = a /\ Away(c, q.src)
      BY <1>3, <1>4 DEF Arrived
    <2>1. q \in Text(log[a])
      BY <1>2
    <2> QED
      BY <2>1 DEF Arrived
  \* An answer in the new line.
  <1>8. ASSUME NEW s, NEW p, NEW q, Answers(s, p, q)', q \in Text(l)
        PROVE  /\ \A a \in Node : Before(log'[a], p, q)
               /\ \A c \in End : InOrder(c, s, p, q)'
    <2>1. /\ s \in Node /\ p \in Text(log'[s]) /\ q \in Text(log'[s]) /\ q.src = s
          /\ Before(log'[s], p, q)
      BY <1>8 DEF Answers
    <2>2. s = n /\ p \in Piece /\ q \in Piece /\ p.no \in Nat
      <3>1. s = n /\ q \in Piece
        BY <1>2, <1>8, <2>1
      <3>2. p \in Piece
        BY <1>5, <2>1, TextType
      <3> QED
        BY <3>1, <3>2 DEF Piece
    <2>3. \A a \in Node : q \in Text(log'[a]) => a = n
      BY <1>2, <1>8
    <2>4. \A a \in Node : Before(log'[a], p, q)
      BY <2>1, <2>2, <2>3, BeforeAbsent
    <2>5. ASSUME NEW c \in End PROVE Before(stream'[c], p, q)
      <3>1. CASE c \notin PeersOf(n)
        <4>1. q \notin Text(stream'[c])
          BY <1>2, <1>8, <3>1
        <4> QED
          BY <4>1, BeforeAbsent
      <3>2. CASE p.src = n
        <4>2. p.no < q.no
          BY <1>5, <1>6, <2>1, <2>2, <3>2, BeforeOrdered
        <4> QED
          BY <1>5, <1>6, <2>1, <2>2, <3>2, <4>2, OrderedBefore
      <3>3. CASE c \in PeersOf(n) /\ p.src # n
        <4>1. p \notin Text(l) /\ q \notin Text(stream[c]) /\ stream[c] \in Seq(Piece)
          BY <1>2, <1>5, <1>8, <3>3
        <4>2. Before(stream[c], p, q)
          BY <4>1, BeforeAbsent
        <4>3. Before(stream[c] \o l, p, q)
          BY <4>1, <4>2, BeforeConcat
        <4> QED
          BY <1>2, <3>3, <4>3
      <3> QED
        BY <3>1, <3>2, <3>3
    <2>6. ASSUME NEW c \in End, remote[c.by] # None, q \in Text(log'[At(Far(c))])
          PROVE  p \notin Text(stream'[c]) /\ ~Away(c, s)
      <3>1. At(Far(c)) = n
        BY <2>3, <2>6, AtFacts
      <3>2. ~Away(c, s)
        BY <2>2, <2>6, <3>1, AwayOwn
      <3>3. p \notin Text(stream'[c])
        BY <1>6, <2>1, <2>2, <3>1
      <3> QED
        BY <3>2, <3>3
    <2>7. ASSUME NEW c \in End PROVE InOrder(c, s, p, q)'
      <3>1. Far(c)' = Far(c) /\ At(Far(c))' = At(Far(c)) /\ (Away(c, s)' <=> Away(c, s))
        BY <1>4 DEF Far
      <3>2. remote' = remote
        BY <1>3
      <3>3. Before(stream'[c], p, q)
        BY <2>5
      <3> QED
        BY <2>6, <3>1, <3>2, <3>3 DEF InOrder
    <2> QED
      BY <2>4, <2>7
  \* An older one.
  <1>9. ASSUME NEW s, NEW p, NEW q, Answers(s, p, q)', q \notin Text(l)
        PROVE  /\ \A a \in Node : Before(log'[a], p, q)
               /\ \A c \in End : InOrder(c, s, p, q)'
    <2>0. /\ s \in Node /\ p \in Text(log'[s]) /\ q \in Text(log'[s]) /\ q.src = s
          /\ Before(log'[s], p, q)
      BY <1>9 DEF Answers
    <2>1. q \in Text(log[s]) /\ p \in Piece /\ q \in Piece
      BY <1>2, <1>5, <1>9, <2>0, TextType
    <2>2. p \notin Text(l)
      <3> SUFFICES ASSUME p \in Text(l) PROVE FALSE
        OBVIOUS
      <3>1. p.src = n /\ p.no > typed[n] /\ s = n
        BY <1>2, <2>0
      <3>3. p.no < q.no
        BY <1>5, <1>6, <2>0, <3>1, BeforeOrdered
      <3>4. q.no <= typed[n] /\ q.no \in Nat
        BY <2>0, <2>1, <3>1, FlowFacts
      <3>5. p.no \in Nat
        BY <2>1 DEF Piece
      <3> QED
        BY <1>5, <3>1, <3>3, <3>4, <3>5
    <2>3. p \in Text(log[s])
      BY <1>2, <2>0, <2>2
    <2>4. Before(log[s], p, q)
      <3>1. CASE s = n
        <4>0. log'[s] = log[n] \o l /\ log[n] \in Seq(Piece)
          BY <1>2, <1>5, <3>1
        <4>1. Before(log[n] \o l, p, q)
          BY <2>0, <4>0
        <4> QED
          BY <3>1, <4>0, <4>1, BeforeConcat
      <3>2. CASE s # n
        <4>1. log'[s] = log[s]
          BY <1>2, <2>0, <3>2
        <4> QED
          BY <2>0, <4>1
      <3> QED
        BY <3>1, <3>2
    <2>5. Answers(s, p, q)
      BY <2>0, <2>1, <2>3, <2>4 DEF Answers
    <2>6. /\ \A a \in Node : Before(log[a], p, q)
          /\ \A c \in End : InOrder(c, s, p, q)
      BY <2>5, CausalWords
    <2>7. ASSUME NEW a \in Node PROVE Before(log'[a], p, q)
      <3>1. CASE a = n
        <4>1. log[n] \in Seq(Piece) /\ Before(log[n], p, q)
          BY <1>5, <2>6
        <4>2. Before(log[n] \o l, p, q)
          BY <2>2, <4>1, BeforeConcat
        <4> QED
          BY <1>2, <3>1, <4>2
      <3>2. CASE a # n
        <4>1. log'[a] = log[a]
          BY <1>2, <3>2
        <4> QED
          BY <2>6, <4>1
      <3> QED
        BY <3>1, <3>2
    <2>8. ASSUME NEW c \in End PROVE Before(stream'[c], p, q)
      <3>0. stream[c] \in Seq(Piece) /\ Before(stream[c], p, q)
        BY <1>5, <2>6 DEF InOrder
      <3>1. CASE c \in PeersOf(n)
        <4>2. Before(stream[c] \o l, p, q)
          BY <2>2, <3>0, BeforeConcat
        <4> QED
          BY <1>2, <3>1, <4>2
      <3>2. CASE c \notin PeersOf(n)
        <4>1. stream'[c] = stream[c]
          BY <1>2, <3>2
        <4> QED
          BY <3>0, <4>1
      <3> QED
        BY <3>1, <3>2
    <2>9. ASSUME NEW c \in End, remote[c.by] # None, q \in Text(log'[At(Far(c))])
          PROVE  /\ p \notin Text(stream'[c])
                 /\ Away(c, s) /\ Away(Far(c), p.src) => p \in Text(log'[At(Far(c))])
      <3>1. At(Far(c)) \in Node
        BY <2>9, AtFacts
      <3>2. q \in Text(log[At(Far(c))])
        BY <1>2, <1>9, <2>9, <3>1
      <3>3. /\ p \notin Text(stream[c])
            /\ Away(c, s) /\ Away(Far(c), p.src) => p \in Text(log[At(Far(c))])
        BY <2>6, <2>9, <3>2 DEF InOrder
      <3>4. p \notin Text(stream'[c])
        BY <1>2, <2>2, <3>3
      <3> QED
        BY <1>2, <3>1, <3>3, <3>4
    <2>10. ASSUME NEW c \in End PROVE InOrder(c, s, p, q)'
      <3>1. Far(c)' = Far(c) /\ At(Far(c))' = At(Far(c))
        BY <1>4 DEF Far
      <3>2. (Away(c, s)' <=> Away(c, s)) /\ (Away(Far(c), p.src)' <=> Away(Far(c), p.src))
        BY <1>4
      <3>3. remote' = remote
        BY <1>3
      <3>4. Before(stream'[c], p, q)
        BY <2>8
      <3> QED
        BY <2>9, <3>1, <3>2, <3>3, <3>4 DEF InOrder
    <2> QED
      BY <2>7, <2>10
  <1>10. Causal'
    <2>1. \A s, p, q : Answers(s, p, q)' =>
             /\ \A a \in Node : Before(log'[a], p, q)
             /\ \A c \in End : InOrder(c, s, p, q)'
      BY <1>8, <1>9
    <2> QED
      BY <2>1 DEF Causal, Answers, InOrder
  <1> QED
    BY <1>7, <1>10

\* A step that only cuts streams off keeps causal order.
LEMMA CausalKept ==
    ASSUME TypeOK, Arrived, Causal, UNCHANGED <<remote, anc, log>>,
           \A e \in End : \E k \in Nat : k <= Len(stream[e]) /\ stream'[e] = SubSeq(stream[e], 1, k)
    PROVE  Arrived' /\ Causal'
  <1>1. /\ \A f : At(f)' = At(f)
        /\ \A f, s : Away(f, s)' <=> Away(f, s)
        /\ \A f : Far(f)' = Far(f) /\ At(Far(f))' = At(Far(f))
    BY Steady DEF Far
  <1>2. Arrived'
    BY <1>1 DEF Arrived
  <1>3. ASSUME NEW s, NEW p, NEW q, Answers(s, p, q), NEW c \in End
        PROVE  InOrder(c, s, p, q)'
    <2>1. InOrder(c, s, p, q)
      BY <1>3, CausalWords
    <2>2. PICK k \in Nat : k <= Len(stream[c]) /\ stream'[c] = SubSeq(stream[c], 1, k)
      OBVIOUS
    <2>3. stream[c] \in Seq(Piece)
      BY DEF TypeOK
    <2>4. Text(stream'[c]) \subseteq Text(stream[c])
      BY <2>2, <2>3, PrefixText
    <2>5. Before(stream'[c], p, q)
      BY <2>1, <2>2, <2>3, BeforePrefix DEF InOrder
    <2> QED
      BY <1>1, <2>1, <2>4, <2>5 DEF InOrder
  <1>4. Causal'
    <2>1. \A s, p, q : Answers(s, p, q)' => Answers(s, p, q)
      BY DEF Answers
    <2>2. \A s, p, q : Answers(s, p, q)' =>
             /\ \A a \in Node : Before(log'[a], p, q)
             /\ \A c \in End : InOrder(c, s, p, q)'
      BY <1>3, <2>1, CausalWords
    <2> QED
      BY <2>2 DEF Causal, Answers, InOrder
  <1> QED
    BY <1>2, <1>4

\* A step that leaves the streams alone is one of those.
LEMMA SameStreams ==
    ASSUME TypeOK, UNCHANGED stream
    PROVE  \A e \in End : \E k \in Nat : k <= Len(stream[e]) /\ stream'[e] = SubSeq(stream[e], 1, k)
  <1> SUFFICES ASSUME NEW e \in End
               PROVE  \E k \in Nat : k <= Len(stream[e]) /\ stream'[e] = SubSeq(stream[e], 1, k)
    OBVIOUS
  <1>1. stream[e] \in Seq(Piece)
    BY DEF TypeOK
  <1>2. Len(stream[e]) \in Nat /\ SubSeq(stream[e], 1, Len(stream[e])) = stream[e]
    BY <1>1
  <1> QED
    BY <1>2

\* A dial joins two trees: what has been seen in one of them has not been seen in
\* the other.
LEMMA CausalDial ==
    ASSUME TypeOK, Sizes, NoRing, Forest, Flow, Arrived, Causal,
           NEW n \in Node, NEW r \in Node, StartDial(n, r), NoRing'
    PROVE  Arrived' /\ Causal'
  <1>1. /\ remote[n] = None /\ log[n] = <<>> /\ remote'[n] = r
        /\ \A m \in Node : m # n => remote'[m] = remote[m]
        /\ \A m \in Node : anc'[m] = IF n \in anc[m] THEN anc[m] \cup anc[r] ELSE anc[m]
        /\ \A e \in End : e.by # n => At(e)' = At(e)
        /\ \A e \in End : e.by = n =>
              /\ stream[e] = <<>>
              /\ e.side = "dial" => At(e)' = n /\ At(Far(e))' = r
              /\ e.side # "dial" => At(e)' = r /\ At(Far(e))' = n
        /\ UNCHANGED <<stream, sent, typed, log>>
    BY DialEffect
  <1>2. /\ \A e \in End : \A s \in Node : remote[e.by] # None /\ Joined(e.by, s)
              => (Away(e, s)' <=> Away(e, s))
        /\ \A s \in Node : Joined(r, s) => n \notin anc'[s]
    BY DialAway
  <1>3. Text(<<>>) = {}
    BY DEF Text
  <1>4. ASSUME NEW e \in End, remote[e.by] # None
        PROVE  /\ e.by # n /\ At(e)' = At(e) /\ At(Far(e))' = At(Far(e))
               /\ remote'[e.by] # None /\ Far(e) \in End /\ Far(e).by = e.by
    <2>1. e.by # n
      BY <1>1, <1>4
    <2>2. Far(e) \in End /\ Far(e).by = e.by /\ e.by \in Node
      BY EndFacts
    <2> QED
      BY <1>1, <1>4, <2>1, <2>2
  <1>5. Arrived'
    <2> SUFFICES ASSUME NEW a \in Node, NEW q \in Text(log[a]), q.src # a
                 PROVE  \E c \in End : remote'[c.by] # None /\ At(Far(c))' = a /\ Away(c, q.src)'
      BY <1>1 DEF Arrived, Far
    <2>1. PICK c \in End : remote[c.by] # None /\ At(Far(c)) = a /\ Away(c, q.src)
      BY DEF Arrived
    <2>2. q.src \in Node /\ Joined(c.by, q.src)
      BY <2>1, FlowFacts, JoinedAcross
    <2> QED
      BY <1>2, <1>4, <2>1, <2>2
  <1>6. ASSUME NEW s, NEW p, NEW q, Answers(s, p, q), NEW c \in End,
               remote'[c.by] # None, q \in Text(log[At(Far(c))'])
        PROVE  /\ p \notin Text(stream[c])
               /\ Away(c, s)' /\ Away(Far(c), p.src)' => p \in Text(log[At(Far(c))'])
    <2>1. InOrder(c, s, p, q) /\ s \in Node /\ q.src = s /\ p.src \in Node /\ Joined(s, p.src)
      BY <1>6, CausalWords, FlowFacts DEF Answers
    <2>2. CASE c.by # n
      <3>1. remote[c.by] # None /\ c.by \in Node
        BY <1>1, <1>6, <2>2, EndFacts
      <3>2. /\ At(Far(c))' = At(Far(c)) /\ At(Far(c)) \in Node
            /\ Far(c) \in End /\ Far(c).by = c.by
        BY <1>4, <3>1, AtFacts
      <3>3. /\ p \notin Text(stream[c])
            /\ Away(c, s) /\ Away(Far(c), p.src) => p \in Text(log[At(Far(c))])
        BY <1>6, <2>1, <3>1, <3>2 DEF InOrder
      <3>4. Joined(c.by, s)
        BY <1>6, <2>1, <3>1, <3>2, FlowFacts, JoinedAcross
      <3>5. Away(c, s)' <=> Away(c, s)
        BY <1>2, <2>1, <3>1, <3>4
      <3>6. c.by \in anc'[p.src] <=> c.by \in anc[p.src]
        <4>1. ASSUME n \in anc[p.src], c.by \in anc[r] PROVE FALSE
          <5>1. n \in anc[s]
            BY <1>1, <2>1, <4>1, RootJoined
          <5>2. n \in anc[c.by]
            BY <1>1, <2>1, <3>1, <3>4, <5>1, RootJoined
          <5>3. n \in anc[r]
            BY <4>1, <5>2 DEF Forest
          <5> QED
            BY <5>3, ForestDial
        <4> QED
          BY <1>1, <2>1, <4>1
      <3>7. Away(Far(c), p.src)' <=> Away(Far(c), p.src)
        BY <3>2, <3>6 DEF Away
      <3> QED
        BY <3>2, <3>3, <3>5, <3>7
    <2>3. CASE c.by = n /\ c.side = "dial"
      <3>1. q \in Text(log[r]) /\ Joined(r, s) /\ stream[c] = <<>>
        BY <1>1, <1>6, <2>1, <2>3, FlowFacts
      <3>2. ~Away(c, s)'
        BY <1>2, <2>1, <2>3, <3>1 DEF Away
      <3> QED
        BY <1>3, <3>1, <3>2
    <2>4. CASE c.by = n /\ c.side # "dial"
      BY <1>1, <1>3, <1>6, <2>4
    <2> QED
      BY <2>2, <2>3, <2>4
  <1>7. ASSUME NEW s, NEW p, NEW q, Answers(s, p, q), NEW c \in End
        PROVE  InOrder(c, s, p, q)'
    <2>1. Before(stream[c], p, q)
      BY <1>7, CausalWords DEF InOrder
    <2>2. Far(c)' = Far(c)
      BY DEF Far
    <2> QED
      BY <1>1, <1>6, <1>7, <2>1, <2>2 DEF InOrder
  <1>8. Causal'
    <2>1. \A s, p, q : Answers(s, p, q)' => Answers(s, p, q)
      BY <1>1 DEF Answers
    <2>2. \A s, p, q : Answers(s, p, q)' =>
             /\ \A a \in Node : Before(log'[a], p, q)
             /\ \A c \in End : InOrder(c, s, p, q)'
      BY <1>1, <1>7, <2>1, CausalWords
    <2> QED
      BY <2>2 DEF Causal, Answers, InOrder
  <1> QED
    BY <1>5, <1>8

\* Causal order is kept by every step that closes no ring.
LEMMA CausalStep ==
    ASSUME TypeOK, Sizes, NoRing, Forest, Flow, Arrived, Causal, [Next]_vars, NoRing'
    PROVE  Arrived' /\ Causal'
  <1>1. ASSUME UNCHANGED <<remote, anc, log, stream>>
        PROVE  Arrived' /\ Causal'
    BY <1>1, SameStreams, CausalKept
  <1>2. CASE UNCHANGED vars \/ \E n \in Node : Listen(n) \/ StartAlone(n) \/ StartFails(n)
    BY <1>1, <1>2 DEF vars, Listen, StartAlone, StartFails
  <1>3. CASE \E e \in End : Accept(e) \/ WritePiece(e)
    BY <1>1, <1>3 DEF Accept, WritePiece
  <1>4. CASE (\E e \in End : Drop(e)) \/ (\E n \in Node : Exit(n))
    BY <1>4, CloseEffect, CausalKept
  <1>5. CASE \E n \in Node : TypeLine(n)
    BY <1>5, FlowType, CausalType
  <1>6. CASE \E e \in End : ReadPiece(e)
    BY <1>6, CausalRead
  <1>7. CASE \E n, r \in Node : StartDial(n, r)
    BY <1>7, CausalDial
  <1> QED
    BY <1>2, <1>3, <1>4, <1>5, <1>6, <1>7 DEF Next

-----------------------------------------------------------------------------
(* The numbers of a sender's pieces in a sequence.                         *)

\* They are those of its text.
LEMMA NosText ==
    ASSUME NEW t \in Seq(Piece), NEW s
    PROVE  /\ Nos(t, s) \subseteq Nat
           /\ \A q \in Text(t) : q.src = s => q.no \in Nos(t, s)
           /\ \A v \in Nos(t, s) : \E q \in Text(t) : q.src = s /\ q.no = v
  <1>1. \A i \in 1..Len(t) : t[i] \in Piece
    OBVIOUS
  <1>2. Nos(t, s) \subseteq Nat
    BY <1>1 DEF Nos, Piece
  <1> QED
    BY <1>2 DEF Nos, Text

\* No piece of anyone is in no text.
LEMMA NosEmpty ==
    ASSUME NEW s
    PROVE  Nos(<<>>, s) = {}
  BY DEF Nos

\* The pieces of a sender in two texts after each other.
LEMMA NosConcat ==
    ASSUME NEW t \in Seq(Piece), NEW l \in Seq(Piece), NEW s
    PROVE  Nos(t \o l, s) = Nos(t, s) \cup Nos(l, s)
  <1> DEFINE u == t \o l
  <1>1. /\ Len(t) \in Nat /\ Len(l) \in Nat /\ Len(u) = Len(t) + Len(l)
        /\ \A i \in 1..Len(t) : i \in 1..Len(u) /\ u[i] = t[i]
        /\ \A i \in 1..Len(u) : i \notin 1..Len(t) => i - Len(t) \in 1..Len(l) /\ u[i] = l[i - Len(t)]
        /\ \A i \in 1..Len(l) : Len(t) + i \in 1..Len(u) /\ u[Len(t) + i] = l[i]
    OBVIOUS
  <1> HIDE DEF u
  <1>2. Nos(u, s) \subseteq Nos(t, s) \cup Nos(l, s)
    <2> SUFFICES ASSUME NEW i \in 1..Len(u), u[i].src = s
                 PROVE  u[i].no \in Nos(t, s) \cup Nos(l, s)
      BY DEF Nos
    <2>1. CASE i \in 1..Len(t)
      BY <1>1, <2>1 DEF Nos
    <2>2. CASE i \notin 1..Len(t)
      BY <1>1, <2>2 DEF Nos
    <2> QED
      BY <2>1, <2>2
  <1>3. Nos(t, s) \subseteq Nos(u, s)
    <2> SUFFICES ASSUME NEW i \in 1..Len(t), t[i].src = s PROVE t[i].no \in Nos(u, s)
      BY DEF Nos
    <2> QED
      BY <1>1 DEF Nos
  <1>4. Nos(l, s) \subseteq Nos(u, s)
    <2> SUFFICES ASSUME NEW i \in 1..Len(l), l[i].src = s PROVE l[i].no \in Nos(u, s)
      BY DEF Nos
    <2> QED
      BY <1>1 DEF Nos
  <1> QED
    BY <1>2, <1>3, <1>4 DEF u

\* A piece adds its number to its sender's.
LEMMA NosOne ==
    ASSUME NEW x \in Piece, NEW s
    PROVE  /\ <<x>> \in Seq(Piece)
           /\ x.src = s => Nos(<<x>>, s) = {x.no}
           /\ x.src # s => Nos(<<x>>, s) = {}
  <1>1. Len(<<x>>) = 1 /\ <<x>>[1] = x /\ <<x>> \in Seq(Piece) /\ 1..1 = {1}
    OBVIOUS
  <1> DEFINE u == <<x>>
  <1> HIDE DEF u
  <1>2. Len(u) = 1 /\ u[1] = x
    BY <1>1 DEF u
  <1>3. {k \in 1..Len(u) : u[k].src = s} = IF x.src = s THEN {1} ELSE {}
    BY <1>1, <1>2
  <1>4. (x.src = s => Nos(u, s) = {x.no}) /\ (x.src # s => Nos(u, s) = {})
    BY <1>2, <1>3 DEF Nos
  <1> QED
    BY <1>1, <1>4 DEF u

\* The same with one piece behind a text.
LEMMA NosAppend ==
    ASSUME NEW t \in Seq(Piece), NEW x \in Piece, NEW s
    PROVE  /\ x.src = s => Nos(Append(t, x), s) = Nos(t, s) \cup {x.no}
           /\ x.src # s => Nos(Append(t, x), s) = Nos(t, s)
  <1> DEFINE l == <<x>>
  <1>1. Append(t, x) = t \o l
    OBVIOUS
  <1>2. /\ l \in Seq(Piece)
        /\ x.src = s => Nos(l, s) = {x.no}
        /\ x.src # s => Nos(l, s) = {}
    BY NosOne
  <1> HIDE DEF l
  <1>3. Nos(t \o l, s) = Nos(t, s) \cup Nos(l, s)
    BY <1>2, NosConcat
  <1> QED
    BY <1>1, <1>2, <1>3

\* The same with one piece before a text.
LEMMA NosTail ==
    ASSUME NEW t \in Seq(Piece), t # <<>>, NEW s
    PROVE  /\ Head(t).src = s => Nos(t, s) = Nos(Tail(t), s) \cup {Head(t).no}
           /\ Head(t).src # s => Nos(t, s) = Nos(Tail(t), s)
  <1>1. t = <<Head(t)>> \o Tail(t) /\ Head(t) \in Piece /\ Tail(t) \in Seq(Piece)
    OBVIOUS
  <1> DEFINE h == Head(t)
             u == Tail(t)
             l == <<h>>
  <1>2. t = l \o u /\ h \in Piece /\ u \in Seq(Piece)
    BY <1>1
  <1> HIDE DEF h, u
  <1>3. /\ l \in Seq(Piece)
        /\ h.src = s => Nos(l, s) = {h.no}
        /\ h.src # s => Nos(l, s) = {}
    BY <1>2, NosOne
  <1> HIDE DEF l
  <1>4. Nos(l \o u, s) = Nos(l, s) \cup Nos(u, s)
    BY <1>2, <1>3, NosConcat
  <1>5. /\ h.src = s => Nos(t, s) = Nos(u, s) \cup {h.no}
        /\ h.src # s => Nos(t, s) = Nos(u, s)
    BY <1>2, <1>3, <1>4
  <1> QED
    BY <1>5 DEF h, u

\* The pieces of a line are numbered without a hole.
LEMMA NosLine ==
    ASSUME NEW n \in Node, NEW k \in Nat, NEW len \in Nat, NEW s \in Node
    PROVE  /\ Nos(Line(n, k, len), n) = (k + 1)..(k + len)
           /\ s # n => Nos(Line(n, k, len), s) = {}
  <1> DEFINE l == Line(n, k, len)
  <1>1. /\ l \in Seq(Piece) /\ Len(l) = len
        /\ \A i \in 1..len : l[i] = [src |-> n, no |-> k + i]
    BY LineText DEF Line
  <1> HIDE DEF l
  <1>2. \A i \in 1..Len(l) : l[i].src = n /\ l[i].no = k + i
    BY <1>1
  <1>3. Nos(l, n) \subseteq (k + 1)..(k + len)
    BY <1>1, <1>2 DEF Nos
  <1>4. (k + 1)..(k + len) \subseteq Nos(l, n)
    <2> SUFFICES ASSUME NEW v \in (k + 1)..(k + len) PROVE v \in Nos(l, n)
      OBVIOUS
    <2>1. v - k \in 1..Len(l) /\ l[v - k].no = v /\ l[v - k].src = n
      BY <1>1, <1>2
    <2> QED
      BY <2>1 DEF Nos
  <1>5. s # n => Nos(l, s) = {}
    BY <1>2 DEF Nos
  <1> QED
    BY <1>3, <1>4, <1>5 DEF l

\* Cutting off the newest pieces leaves the older ones of each sender.
LEMMA NosPrefix ==
    ASSUME NEW t \in Seq(Piece), Ordered(t), NEW k \in Nat, k <= Len(t), NEW s
    PROVE  /\ Nos(SubSeq(t, 1, k), s) \subseteq Nos(t, s)
           /\ \A v \in Nos(SubSeq(t, 1, k), s), w \in Nos(t, s) :
                 w <= v => w \in Nos(SubSeq(t, 1, k), s)
  <1> DEFINE u == SubSeq(t, 1, k)
  <1>1. Len(u) = k /\ Len(t) \in Nat /\ \A i \in 1..k : i \in 1..Len(t) /\ u[i] = t[i]
    OBVIOUS
  <1>2. \A i \in 1..Len(t) : t[i].no \in Nat
    <2>1. \A i \in 1..Len(t) : t[i] \in Piece
      OBVIOUS
    <2> QED
      BY <2>1 DEF Piece
  <1> HIDE DEF u
  <1>3. Nos(u, s) \subseteq Nos(t, s)
    BY <1>1 DEF Nos
  <1>4. ASSUME NEW v \in Nos(u, s), NEW w \in Nos(t, s), w <= v
        PROVE  w \in Nos(u, s)
    <2>1. PICK i \in 1..Len(u) : u[i].src = s /\ u[i].no = v
      BY DEF Nos
    <2>2. PICK j \in 1..Len(t) : t[j].src = s /\ t[j].no = w
      BY DEF Nos
    <2>3. i \in 1..Len(t) /\ t[i].src = s /\ t[i].no = v
      BY <1>1, <2>1
    <2>4. i < j => v < w
      BY <2>2, <2>3 DEF Ordered
    <2>5. v \in Nat /\ w \in Nat
      BY <1>2, <2>2, <2>3
    <2>6. j <= i
      BY <1>1, <1>4, <2>2, <2>3, <2>4, <2>5
    <2>7. j \in 1..Len(u) /\ u[j] = t[j]
      BY <1>1, <2>1, <2>2, <2>6
    <2> QED
      BY <2>2, <2>7 DEF Nos
  <1> QED
    BY <1>3, <1>4 DEF u

-----------------------------------------------------------------------------
(* No holes.                                                               *)

\* What NoHoles says of the end e and a sender s.
Unbroken(e, s) ==
    /\ \A a, b \in Due(e, s) : a..b \subseteq Due(e, s)
    /\ Due(e, s) # {} /\ e \in peers =>
          \A k \in Nos(log[At(e)], s) : \E x \in Due(e, s) : k <= x

\* NoHoles and Whole in these words, for use and for proof.
LEMMA HolesWords ==
    /\ NoHoles <=> (NoRing => \A e \in End : \A s \in Node :
                       remote[e.by] # None /\ Away(e, s) => Unbroken(e, s))
    /\ Whole <=> /\ \A n \in Node : Nos(log[n], n) = 1..typed[n]
                 /\ \A e \in backlog : \A s \in Node : Away(e, s) => Due(e, s) = {}
  BY DEF NoHoles, Unbroken, Whole

\* Where nothing is due, nothing is missing.
LEMMA NothingDue ==
    ASSUME NEW e, NEW s, Due(e, s) = {}
    PROVE  Unbroken(e, s)
  BY DEF Unbroken

\* Flow, in numbers.
LEMMA NosFlow ==
    ASSUME TypeOK, Sizes, Forest, Flow, NEW s \in Node, NEW e \in End, remote[e.by] # None
    PROVE  /\ Nos(log[At(e)], s) \subseteq 1..typed[s]
           /\ Nos(log[At(Far(e))], s) \subseteq 1..typed[s]
           /\ Nos(stream[e], s) \subseteq Nos(log[At(e)], s)
           /\ \A v \in Nos(stream[e], s), w \in Nos(log[At(Far(e))], s) : w < v
           /\ Away(e, s) => Nos(log[At(Far(e))], s) \subseteq Nos(log[At(e)], s)
           /\ Due(e, s) \subseteq Nat
           /\ ~Joined(e.by, s) => Due(e, s) = {}
  <1>0. At(e) \in Node /\ At(Far(e)) \in Node
    BY AtFacts
  <1>1. /\ log[At(e)] \in Seq(Piece) /\ log[At(Far(e))] \in Seq(Piece)
        /\ stream[e] \in Seq(Piece) /\ typed[s] \in Nat
    BY <1>0 DEF TypeOK
  <1>2. ASSUME NEW a \in Node
        PROVE  /\ Nos(log[a], s) \subseteq 1..typed[s]
               /\ ~Joined(a, s) => Nos(log[a], s) = {}
    <2> SUFFICES ASSUME NEW v \in Nos(log[a], s) PROVE v \in 1..typed[s] /\ Joined(a, s)
      OBVIOUS
    <2>0. log[a] \in Seq(Piece)
      BY DEF TypeOK
    <2>1. PICK q \in Text(log[a]) : q.src = s /\ q.no = v
      BY <2>0, NosText
    <2>2. q.no \in Nat /\ q.no > 0 /\ q.no <= typed[q.src] /\ Joined(a, q.src)
      BY FlowFacts
    <2> QED
      BY <1>1, <2>1, <2>2
  <1>3. Nos(stream[e], s) \subseteq Nos(log[At(e)], s)
    <2> SUFFICES ASSUME NEW v \in Nos(stream[e], s) PROVE v \in Nos(log[At(e)], s)
      OBVIOUS
    <2>1. PICK q \in Text(stream[e]) : q.src = s /\ q.no = v
      BY <1>1, NosText
    <2>2. q \in Text(log[At(e)])
      BY FlowFacts
    <2> QED
      BY <1>1, <2>1, <2>2, NosText
  <1>4. ASSUME NEW v \in Nos(stream[e], s), NEW w \in Nos(log[At(Far(e))], s)
        PROVE  w < v
    <2>1. PICK p \in Text(stream[e]) : p.src = s /\ p.no = v
      BY <1>1, NosText
    <2>2. PICK q \in Text(log[At(Far(e))]) : q.src = s /\ q.no = w
      BY <1>1, NosText
    <2> QED
      BY <2>1, <2>2, FlowFacts
  <1>5. ASSUME Away(e, s), NEW v \in Nos(log[At(Far(e))], s)
        PROVE  v \in Nos(log[At(e)], s)
    <2>1. PICK q \in Text(log[At(Far(e))]) : q.src = s /\ q.no = v
      BY <1>1, NosText
    <2>2. q \in Text(log[At(e)])
      BY <1>5, <2>1, FlowFacts
    <2> QED
      BY <1>1, <2>1, <2>2, NosText
  <1>6. Due(e, s) \subseteq Nat
    BY <1>1, NosText DEF Due
  <1>7. ~Joined(e.by, s) => Due(e, s) = {}
    <2> SUFFICES ASSUME ~Joined(e.by, s) PROVE Due(e, s) = {}
      OBVIOUS
    <2>1. ~Joined(At(e), s) /\ ~Joined(At(Far(e)), s)
      BY JoinedAcross
    <2> QED
      BY <1>0, <1>2, <1>3, <2>1 DEF Due
  <1> QED
    BY <1>0, <1>2, <1>3, <1>4, <1>5, <1>6, <1>7

\* Losing the ends of streams, and the connections with them, opens no hole.
LEMMA HolesKept ==
    ASSUME TypeOK, Sizes, NoRing, Forest, Flow, Whole, NoHoles, UNCHANGED <<remote, anc, log, typed>>,
           \A e \in End :
              /\ \E k \in Nat : k <= Len(stream[e]) /\ stream'[e] = SubSeq(stream[e], 1, k)
              /\ e \in peers' => stream'[e] = stream[e],
           peers' \subseteq peers, backlog' \subseteq backlog
    PROVE  Whole' /\ NoHoles'
  <1>0. /\ \A e : At(e)' = At(e) /\ Far(e)' = Far(e)
        /\ \A e, s : Away(e, s)' <=> Away(e, s)
        /\ \A e : At(Far(e))' = At(Far(e))
    BY Steady DEF Far
  <1>1. ASSUME NEW e \in End, NEW s \in Node, remote[e.by] # None
        PROVE  /\ Due(e, s)' \subseteq Due(e, s)
               /\ \A v \in Due(e, s)', w \in Due(e, s) : w <= v => w \in Due(e, s)'
    <2>1. PICK k \in Nat : k <= Len(stream[e]) /\ stream'[e] = SubSeq(stream[e], 1, k)
      OBVIOUS
    <2>2. stream[e] \in Seq(Piece) /\ Ordered(stream[e])
      BY DEF TypeOK, Flow
    <2>3. /\ Nos(stream'[e], s) \subseteq Nos(stream[e], s)
          /\ \A v \in Nos(stream'[e], s), w \in Nos(stream[e], s) :
                w <= v => w \in Nos(stream'[e], s)
      BY <2>1, <2>2, NosPrefix
    <2>4. /\ \A v \in Nos(stream[e], s), w \in Nos(log[At(Far(e))], s) : w < v
          /\ Due(e, s) \subseteq Nat
      BY <1>1, NosFlow
    <2>5. Due(e, s)' = Nos(log[At(Far(e))], s) \cup Nos(stream'[e], s)
      BY <1>0 DEF Due
    <2>6. Due(e, s) = Nos(log[At(Far(e))], s) \cup Nos(stream[e], s)
      BY DEF Due
    <2>7. Due(e, s)' \subseteq Due(e, s)
      BY <2>3, <2>5, <2>6
    <2>8. ASSUME NEW v \in Due(e, s)', NEW w \in Due(e, s), w <= v
          PROVE  w \in Due(e, s)'
      <3>1. v \in Nat /\ w \in Nat
        BY <2>4, <2>7
      <3>2. CASE w \in Nos(log[At(Far(e))], s)
        BY <2>5, <3>2
      <3>3. CASE w \in Nos(stream[e], s)
        <4>1. v \notin Nos(log[At(Far(e))], s)
          BY <2>4, <2>8, <3>1, <3>3
        <4> QED
          BY <2>3, <2>5, <2>8, <3>3, <4>1
      <3> QED
        BY <2>6, <2>8, <3>2, <3>3
    <2> QED
      BY <2>7, <2>8
  <1>2. ASSUME NEW e \in End, NEW s \in Node, remote[e.by] # None, Away(e, s)
        PROVE  Unbroken(e, s)'
    <2>1. Unbroken(e, s)
      BY <1>2, HolesWords
    <2>2. ASSUME NEW a \in Due(e, s)', NEW b \in Due(e, s)', NEW c \in a..b
          PROVE  c \in Due(e, s)'
      <3>1. a \in Due(e, s) /\ b \in Due(e, s)
        BY <1>1, <1>2
      <3>2. c \in Due(e, s) /\ c <= b
        BY <2>1, <3>1 DEF Unbroken
      <3> QED
        BY <1>1, <1>2, <3>2
    <2>3. ASSUME e \in peers'
          PROVE  e \in peers /\ Due(e, s)' = Due(e, s) /\ log'[At(e)'] = log[At(e)]
      BY <1>0, <2>3 DEF Due
    <2> QED
      BY <2>1, <2>2, <2>3 DEF Unbroken
  <1>3. NoHoles'
    <2>1. \A e \in End : \A s \in Node : remote'[e.by] # None /\ Away(e, s)' => Unbroken(e, s)'
      BY <1>0, <1>2
    <2> QED
      BY <2>1 DEF NoHoles, Unbroken
  <1>4. Whole'
    <2>1. \A n \in Node : Nos(log'[n], n) = 1..typed'[n]
      BY DEF Whole
    <2>2. ASSUME NEW e \in backlog', NEW s \in Node, Away(e, s)'
          PROVE  Due(e, s)' = {}
      <3>1. e \in backlog /\ e \in End /\ remote[e.by] # None /\ Away(e, s)
        BY <1>0, <2>2, PeerFacts
      <3>2. Due(e, s) = {}
        BY <3>1 DEF Whole
      <3> QED
        BY <1>1, <3>1, <3>2
    <2> QED
      BY <2>1, <2>2 DEF Whole
  <1> QED
    BY <1>3, <1>4

\* To a process that has just been accepted nothing has been sent.
LEMMA HolesAccept ==
    ASSUME TypeOK, Sizes, NoRing, Forest, Flow, Whole, NoHoles, NEW f \in End, Accept(f)
    PROVE  Whole' /\ NoHoles'
  <1>1. /\ f \in backlog
        /\ UNCHANGED <<remote, anc, log, typed, stream>>
        /\ backlog' = backlog \ {f} /\ peers' = peers \cup {f}
    BY DEF Accept
  <1>2. /\ \A e : At(e)' = At(e) /\ Far(e)' = Far(e)
        /\ \A e, s : Away(e, s)' <=> Away(e, s)
        /\ \A e : At(Far(e))' = At(Far(e))
    BY <1>1, Steady DEF Far
  <1>3. \A e, s : Due(e, s)' = Due(e, s)
    BY <1>1, <1>2 DEF Due
  <1>4. \A s \in Node : Away(f, s) => Due(f, s) = {}
    BY <1>1 DEF Whole
  <1>5. ASSUME NEW e \in End, NEW s \in Node, remote[e.by] # None, Away(e, s)
        PROVE  Unbroken(e, s)'
    <2>1. Unbroken(e, s)
      BY <1>5, HolesWords
    <2>2. Due(e, s) # {} /\ e \in peers' => e \in peers
      BY <1>1, <1>4, <1>5
    <2> QED
      BY <1>1, <1>2, <1>3, <2>1, <2>2 DEF Unbroken
  <1>6. NoHoles'
    <2>1. \A e \in End : \A s \in Node : remote'[e.by] # None /\ Away(e, s)' => Unbroken(e, s)'
      BY <1>1, <1>2, <1>5
    <2> QED
      BY <2>1 DEF NoHoles, Unbroken
  <1>7. Whole'
    BY <1>1, <1>2, <1>3 DEF Whole
  <1> QED
    BY <1>6, <1>7

\* Nor to one that is dialled, and nothing comes from it.
LEMMA HolesDial ==
    ASSUME TypeOK, Sizes, NoRing, Forest, Flow, Whole, NoHoles,
           NEW n \in Node, NEW r \in Node, StartDial(n, r), NoRing'
    PROVE  Whole' /\ NoHoles'
  <1>1. /\ remote[n] = None /\ log[n] = <<>> /\ remote'[n] = r
        /\ \A m \in Node : m # n => remote'[m] = remote[m]
        /\ \A e \in End : e.by # n => At(e)' = At(e)
        /\ \A e \in End : e.by = n =>
              /\ stream[e] = <<>>
              /\ e.side = "dial" => At(e)' = n /\ At(Far(e))' = r
              /\ e.side # "dial" => At(e)' = r /\ At(Far(e))' = n
        /\ UNCHANGED <<stream, sent, typed, log>>
    BY DialEffect
  <1>2. /\ \A e \in End : \A s \in Node : remote[e.by] # None /\ Joined(e.by, s)
              => (Away(e, s)' <=> Away(e, s))
        /\ \A s \in Node : Joined(r, s) => n \notin anc'[s]
    BY DialAway
  <1>3. /\ peers' = peers \cup {[by |-> n, side |-> "dial"]}
        /\ backlog' = backlog \cup {[by |-> n, side |-> "accept"]}
    BY DEF StartDial
  <1>4. ASSUME NEW e \in End, remote[e.by] # None
        PROVE  /\ e.by # n /\ At(e)' = At(e) /\ At(Far(e))' = At(Far(e))
               /\ \A s : Due(e, s)' = Due(e, s)
    <2>1. e.by # n
      BY <1>1, <1>4
    <2>2. Far(e) \in End /\ Far(e).by = e.by /\ Far(e)' = Far(e)
      BY EndFacts DEF Far
    <2>3. At(e)' = At(e) /\ At(Far(e))' = At(Far(e))
      BY <1>1, <2>1, <2>2
    <2> QED
      BY <1>1, <2>1, <2>3 DEF Due, Far
  \* The new connection.
  <1>5. ASSUME NEW e \in End, e.by = n, NEW s \in Node, Away(e, s)'
        PROVE  Due(e, s)' = {}
    <2>1. Nos(<<>>, s) = {} /\ stream[e] = <<>>
      BY <1>1, <1>5, NosEmpty
    <2>2. Due(e, s)' = Nos(log[At(Far(e))'], s)
      BY <1>1, <2>1 DEF Due, Far
    <2>3. CASE e.side = "dial"
      <3>1. ~Joined(r, s) /\ At(Far(e))' = r
        BY <1>1, <1>2, <1>5, <2>3 DEF Away
      <3>2. Nos(log[r], s) = {}
        <4> SUFFICES ASSUME NEW v \in Nos(log[r], s) PROVE FALSE
          OBVIOUS
        <4>0. log[r] \in Seq(Piece)
          BY DEF TypeOK
        <4>1. PICK q \in Text(log[r]) : q.src = s /\ q.no = v
          BY <4>0, NosText
        <4> QED
          BY <3>1, <4>1, FlowFacts
      <3> QED
        BY <2>2, <3>1, <3>2
    <2>4. CASE e.side # "dial"
      BY <1>1, <1>5, <2>1, <2>2, <2>4
    <2> QED
      BY <2>3, <2>4
  <1>6. ASSUME NEW e \in End, NEW s \in Node, remote[e.by] # None, Away(e, s)', ~Away(e, s)
        PROVE  Due(e, s) = {}
    BY <1>2, <1>6, NosFlow
  <1>7. ASSUME NEW e \in End, NEW s \in Node, remote'[e.by] # None, Away(e, s)'
        PROVE  Unbroken(e, s)'
    <2>1. CASE e.by = n
      <3>1. Due(e, s)' = {}
        BY <1>5, <1>7, <2>1
      <3> QED
        BY <3>1 DEF Unbroken
    <2>2. CASE e.by # n
      <3>0. e.by \in Node /\ remote[e.by] # None
        BY <1>1, <1>7, <2>2, EndFacts
      <3>1. Due(e, s)' = Due(e, s) /\ At(e)' = At(e)
        BY <1>4, <3>0
      <3>2. Unbroken(e, s)
        BY <1>6, <1>7, <3>0, HolesWords, NothingDue
      <3>3. e \in peers' => e \in peers
        BY <1>3, <2>2
      <3> QED
        BY <1>1, <3>1, <3>2, <3>3 DEF Unbroken
    <2> QED
      BY <2>1, <2>2
  <1>8. NoHoles'
    <2>1. \A e \in End : \A s \in Node : remote'[e.by] # None /\ Away(e, s)' => Unbroken(e, s)'
      BY <1>7
    <2> QED
      BY <2>1 DEF NoHoles, Unbroken
  <1>9. Whole'
    <2>1. \A a \in Node : Nos(log'[a], a) = 1..typed'[a]
      BY <1>1 DEF Whole
    <2>2. ASSUME NEW e \in backlog', NEW s \in Node, Away(e, s)'
          PROVE  Due(e, s)' = {}
      <3>1. CASE e = [by |-> n, side |-> "accept"]
        <4>1. e \in End /\ e.by = n
          BY <3>1 DEF End
        <4> QED
          BY <1>5, <2>2, <4>1
      <3>2. CASE e \in backlog
        <4>1. e \in End /\ remote[e.by] # None
          BY <3>2, PeerFacts
        <4>2. Due(e, s) = {}
          BY <1>6, <2>2, <3>2, <4>1 DEF Whole
        <4> QED
          BY <1>4, <4>1, <4>2
      <3> QED
        BY <1>3, <3>1, <3>2
    <2> QED
      BY <2>1, <2>2 DEF Whole
  <1> QED
    BY <1>8, <1>9

\* Numbers without a hole that end at lo, if there are any, go on with those up
\* to hi.
LEMMA Extended ==
    ASSUME NEW lo \in Nat, NEW hi \in Nat, lo < hi, NEW D, D \subseteq 0..lo,
           D # {} => lo \in D, \A a, b \in D : a..b \subseteq D
    PROVE  \A a, b \in D \cup (lo + 1)..hi : a..b \subseteq D \cup (lo + 1)..hi
  <1> DEFINE new == (lo + 1)..hi
  <1> SUFFICES ASSUME NEW v \in D \cup new, NEW w \in D \cup new, NEW z \in v..w
               PROVE  z \in D \cup new
    OBVIOUS
  <1>1. CASE z <= lo
    <2>1. v \in D /\ lo \in D
      BY <1>1
    <2>2. z \in v..lo
      BY <1>1, <2>1
    <2> QED
      BY <2>1, <2>2
  <1>2. CASE ~(z <= lo)
    BY <1>2
  <1> QED
    BY <1>1, <1>2

\* What is due grows without a hole when it grows with what the near end has seen.
LEMMA UnbrokenGrows ==
    ASSUME NEW e, NEW s, Unbroken(e, s), e \in peers,
           NEW lo \in Nat, NEW hi \in Nat, lo < hi,
           NEW K, K = Nos(log[At(e)], s), K \subseteq 0..lo, Due(e, s) \subseteq K,
           Due(e, s) # {} => lo \in K,
           Nos(log'[At(e)'], s) = K \cup (lo + 1)..hi,
           Due(e, s)' = Due(e, s) \cup (lo + 1)..hi
    PROVE  Unbroken(e, s)'
  <1> DEFINE D == Due(e, s)
             new == (lo + 1)..hi
  <1>1. /\ \A a, b \in D : a..b \subseteq D
        /\ D # {} => \A k \in K : \E x \in D : k <= x
        /\ D \subseteq K /\ (D # {} => lo \in K)
        /\ Due(e, s)' = D \cup new
    BY DEF Unbroken
  <1> HIDE DEF D
  <1>2. D # {} => lo \in D
    <2> SUFFICES ASSUME D # {} PROVE lo \in D
      OBVIOUS
    <2>1. PICK y \in D : lo <= y
      BY <1>1
    <2>2. y \in 0..lo
      BY <1>1
    <2>3. y = lo
      BY <2>1, <2>2
    <2> QED
      BY <2>3
  <1>3. D \subseteq 0..lo
    BY <1>1
  <1>4. \A a, b \in D \cup new : a..b \subseteq D \cup new
    BY <1>1, <1>2, <1>3, Extended
  <1>5. hi \in new /\ \A k \in K \cup new : k <= hi
    OBVIOUS
  <1>6. \A k \in K \cup new : \E x \in D \cup new : k <= x
    BY <1>5
  <1> HIDE DEF new
  <1>7. Nos(log'[At(e)'], s) = K \cup new
    BY DEF new
  <1> QED
    BY <1>1, <1>4, <1>6, <1>7 DEF Unbroken

\* A typed line goes on where the sender's text ends, at all his peers.
LEMMA HolesType ==
    ASSUME TypeOK, Sizes, NoRing, Forest, Flow, Whole, NoHoles, NEW n \in Node, TypeLine(n)
    PROVE  Whole' /\ NoHoles'
  <1>1. PICK len \in 1..LineLen :
           /\ typed' = [typed EXCEPT ![n] = @ + len]
           /\ log' \in [Node -> Seq(Piece)]
           /\ log'[n] = log[n] \o Line(n, typed[n], len)
           /\ \A a \in Node \ {n} : log'[a] = log[a]
           /\ stream' \in [End -> Seq(Piece)]
           /\ \A e \in PeersOf(n) : stream'[e] = stream[e] \o Line(n, typed[n], len)
           /\ \A e \in End : e \notin PeersOf(n) => stream'[e] = stream[e]
    BY TypeLineEffect
  <1>2. len \in Nat \ {0} /\ typed[n] \in Nat
    BY NetAssumption DEF TypeOK
  <1>3. PICK k \in Nat, h \in Nat : k = typed[n] /\ h = k + len /\ k < h
    BY <1>2
  <1> DEFINE l == Line(n, typed[n], len)
             new == (k + 1)..h
  <1>4. /\ l \in Seq(Piece)
        /\ Nos(l, n) = new
        /\ \A s \in Node : s # n => Nos(l, s) = {}
    BY <1>2, <1>3, LineText, NosLine
  <1>5. /\ log'[n] = log[n] \o l
        /\ \A e \in PeersOf(n) : stream'[e] = stream[e] \o l
    BY <1>1
  <1>6. typed'[n] = h /\ \A a \in Node : a # n => typed'[a] = typed[a]
    BY <1>1, <1>3 DEF TypeOK
  <1> HIDE DEF l, new
  <1>7. UNCHANGED <<remote, anc, peers, backlog>>
    BY DEF TypeLine
  <1>8. /\ \A e : At(e)' = At(e) /\ Far(e)' = Far(e)
        /\ \A e, s : Away(e, s)' <=> Away(e, s)
        /\ \A e : At(Far(e))' = At(Far(e))
    BY <1>7, Steady DEF Far
  <1>9. ASSUME NEW a \in Node, NEW s \in Node
        PROVE  /\ a = n /\ s = n => Nos(log'[a], s) = Nos(log[a], s) \cup new
               /\ a # n \/ s # n => Nos(log'[a], s) = Nos(log[a], s)
    <2>1. CASE a = n
      <3>1. log[n] \in Seq(Piece)
        BY DEF TypeOK
      <3>2. Nos(log[n] \o l, s) = Nos(log[n], s) \cup Nos(l, s)
        BY <1>4, <3>1, NosConcat
      <3> QED
        BY <1>4, <1>5, <2>1, <3>2
    <2>2. CASE a # n
      <3>1. log'[a] = log[a]
        BY <1>1, <2>2
      <3> QED
        BY <2>2, <3>1
    <2> QED
      BY <2>1, <2>2
  <1>10. ASSUME NEW e \in End, NEW s \in Node
         PROVE  /\ e \in PeersOf(n) /\ s = n => Nos(stream'[e], s) = Nos(stream[e], s) \cup new
                /\ ~(e \in PeersOf(n) /\ s = n) => Nos(stream'[e], s) = Nos(stream[e], s)
    <2>1. CASE e \in PeersOf(n)
      <3>1. stream[e] \in Seq(Piece)
        BY DEF TypeOK
      <3>2. Nos(stream[e] \o l, s) = Nos(stream[e], s) \cup Nos(l, s)
        BY <1>4, <3>1, NosConcat
      <3> QED
        BY <1>4, <1>5, <2>1, <3>2
    <2>2. CASE e \notin PeersOf(n)
      <3>1. stream'[e] = stream[e]
        BY <1>1, <2>2
      <3> QED
        BY <2>2, <3>1
    <2> QED
      BY <2>1, <2>2
  <1>11. ASSUME NEW e \in End, NEW s \in Node, remote[e.by] # None, Away(e, s)
         PROVE  /\ e \in PeersOf(n) /\ s = n => Due(e, s)' = Due(e, s) \cup new
                /\ ~(e \in PeersOf(n) /\ s = n) => Due(e, s)' = Due(e, s)
    <2>0. At(Far(e)) \in Node
      BY <1>11, AtFacts
    <2>1. ~(At(Far(e)) = n /\ s = n)
      BY <1>11, AwayOwn
    <2>2. Nos(log'[At(Far(e))], s) = Nos(log[At(Far(e))], s)
      BY <1>9, <2>0, <2>1
    <2>3. Due(e, s)' = Nos(log'[At(Far(e))], s) \cup Nos(stream'[e], s)
      BY <1>8 DEF Due
    <2>4. Due(e, s) = Nos(log[At(Far(e))], s) \cup Nos(stream[e], s)
      BY DEF Due
    <2>5. /\ e \in PeersOf(n) /\ s = n => Nos(stream'[e], s) = Nos(stream[e], s) \cup new
          /\ ~(e \in PeersOf(n) /\ s = n) => Nos(stream'[e], s) = Nos(stream[e], s)
      BY <1>10
    <2> QED
      BY <2>2, <2>3, <2>4, <2>5
  <1>12. Nos(log[n], n) = 1..k
    BY <1>3 DEF Whole
  <1>13. ASSUME NEW e \in End, NEW s \in Node, remote[e.by] # None, Away(e, s)
         PROVE  Unbroken(e, s)'
    <2>1. Unbroken(e, s) /\ At(e) \in Node
      BY <1>13, HolesWords, AtFacts
    <2>2. CASE e \in PeersOf(n) /\ s = n
      <3>1. At(e) = n /\ e \in peers
        BY <2>2 DEF PeersOf
      <3>2. Due(e, s) \subseteq 1..k
        <4>1. /\ Nos(log[At(Far(e))], s) \subseteq Nos(log[At(e)], s)
              /\ Nos(stream[e], s) \subseteq Nos(log[At(e)], s)
          BY <1>13, NosFlow
        <4> QED
          BY <1>12, <2>2, <3>1, <4>1 DEF Due
      <3>3. PICK K : K = 1..k
        OBVIOUS
      <3>4. K \subseteq 0..k /\ (Due(e, s) # {} => k \in K)
        BY <1>3, <3>2, <3>3
      <3>5. Nos(log'[At(e)'], s) = K \cup new
        BY <1>8, <1>9, <1>12, <2>2, <3>1, <3>3
      <3>6. Due(e, s)' = Due(e, s) \cup new
        BY <1>11, <1>13, <2>2
      <3>7. K = Nos(log[At(e)], s) /\ Due(e, s) \subseteq K
        BY <1>12, <2>2, <3>1, <3>2, <3>3
      <3> QED
        BY <1>3, <2>1, <3>1, <3>4, <3>5, <3>6, <3>7, UnbrokenGrows DEF new
    <2>3. CASE ~(e \in PeersOf(n) /\ s = n)
      <3>1. Due(e, s)' = Due(e, s)
        BY <1>11, <1>13, <2>3
      <3>2. e \in peers' => e \in peers /\ Nos(log'[At(e)'], s) = Nos(log[At(e)], s)
        BY <1>7, <1>8, <1>9, <2>1, <2>3 DEF PeersOf
      <3> QED
        BY <2>1, <3>1, <3>2 DEF Unbroken
    <2> QED
      BY <2>2, <2>3
  <1>14. NoHoles'
    <2>1. \A e \in End : \A s \in Node : remote'[e.by] # None /\ Away(e, s)' => Unbroken(e, s)'
      BY <1>7, <1>8, <1>13
    <2> QED
      BY <2>1 DEF NoHoles, Unbroken
  <1>15. Whole'
    <2>1. ASSUME NEW a \in Node
          PROVE  Nos(log'[a], a) = 1..typed'[a]
      <3>1. CASE a = n
        <4>1. Nos(log'[a], a) = (1..k) \cup new
          BY <1>9, <1>12, <3>1
        <4>2. (1..k) \cup new = 1..h
          BY <1>3 DEF new
        <4> QED
          BY <1>6, <3>1, <4>1, <4>2
      <3>2. CASE a # n
        BY <1>6, <1>9, <3>2 DEF Whole
      <3> QED
        BY <3>1, <3>2
    <2>2. ASSUME NEW e \in backlog', NEW s \in Node, Away(e, s)'
          PROVE  Due(e, s)' = {}
      <3>1. e \in backlog /\ Away(e, s)
        BY <1>7, <1>8, <2>2
      <3>2. e \in End /\ remote[e.by] # None /\ Due(e, s) = {}
        BY <3>1, PeerFacts DEF Whole
      <3>3. e \notin PeersOf(n)
        BY <3>1 DEF PeersOf, Sizes
      <3> QED
        BY <1>11, <3>1, <3>2, <3>3
    <2> QED
      BY <2>1, <2>2 DEF Whole
  <1> QED
    BY <1>14, <1>15

\* A relayed piece is the next of its sender at every process it is passed on to.
LEMMA HolesRead ==
    ASSUME TypeOK, Sizes, NoRing, Forest, Flow, Whole, NoHoles, NEW r \in End, ReadPiece(r)
    PROVE  Whole' /\ NoHoles'
  <1>1. PICK d \in End, n \in Node, to \in SUBSET End, x \in Piece : Relays(r, d, n, to, x)
    BY ReadPieceEffect
  <1> Passes(r, d, n, to, x)
    BY <1>1, RelayFacts
  <1>2. /\ r = Far(d) /\ n = At(Far(d)) /\ At(d) \in Node /\ At(d) # n /\ d \notin to
        /\ remote[d.by] # None
        /\ x \in Text(stream[d]) /\ x.src \in Node /\ Away(d, x.src) /\ x \in Text(log[At(d)])
        /\ x.src # n
        /\ stream[d] \in Seq(Piece) /\ stream[d] # <<>> /\ x = Head(stream[d])
        /\ stream'[d] = Tail(stream[d])
        /\ \A y \in End : remote[y.by] # None /\ At(Far(y)) = n /\ Away(y, x.src) => y = d
        /\ \A f \in to : /\ f # d /\ f \in peers /\ remote[f.by] # None
                         /\ At(f) = n /\ Away(f, x.src)
                         /\ stream'[f] = Append(stream[f], x)
        /\ \A f \in End : f # d /\ f \notin to => stream'[f] = stream[f]
        /\ log'[n] = Append(log[n], x)
        /\ \A a \in Node \ {n} : log'[a] = log[a]
    BY DEF Passes
  <1>3. to = PeersOf(n) \ {r}
    BY <1>1 DEF Relays
  <1>4. UNCHANGED <<remote, anc, peers, backlog, typed>>
    BY DEF ReadPiece, ReadPieceTo
  <1>5. /\ \A e : At(e)' = At(e) /\ Far(e)' = Far(e)
        /\ \A e, s : Away(e, s)' <=> Away(e, s)
        /\ \A e : At(Far(e))' = At(Far(e))
    BY <1>4, Steady DEF Far
  <1>6. /\ \A a \in Node : log[a] \in Seq(Piece)
        /\ \A e \in End : stream[e] \in Seq(Piece)
    BY DEF TypeOK
  <1>7. PICK v \in Nat : v = x.no /\ v > 0
    <2>1. x.no > 0
      BY <1>2, FlowFacts
    <2> QED
      BY <2>1 DEF Piece
  <1>8. ASSUME NEW s \in Node
        PROVE  /\ x.src = s => Nos(stream[d], s) = Nos(stream'[d], s) \cup {v}
               /\ x.src # s => Nos(stream[d], s) = Nos(stream'[d], s)
    <2>1. /\ Head(stream[d]).src = s
               => Nos(stream[d], s) = Nos(Tail(stream[d]), s) \cup {Head(stream[d]).no}
          /\ Head(stream[d]).src # s => Nos(stream[d], s) = Nos(Tail(stream[d]), s)
      BY <1>2, NosTail
    <2> QED
      BY <1>2, <1>7, <2>1
  <1>9. \A w \in Nos(stream'[d], x.src) : v < w
    <2> SUFFICES ASSUME NEW w \in Nos(stream'[d], x.src) PROVE v < w
      OBVIOUS
    <2>1. /\ \A q \in Text(Tail(stream[d])) : q.src = x.src => x.no < q.no
          /\ Tail(stream[d]) \in Seq(Piece)
      BY <1>2, TailText, FlowFacts
    <2> DEFINE u == Tail(stream[d])
               y == x.src
    <2>2. u \in Seq(Piece) /\ w \in Nos(u, y)
      BY <1>2, <2>1
    <2>3. \A q \in Text(u) : q.src = y => x.no < q.no
      BY <2>1
    <2> HIDE DEF u, y
    <2>4. PICK q \in Text(u) : q.src = y /\ q.no = w
      BY <2>2, NosText
    <2> QED
      BY <1>7, <2>3, <2>4
  <1>10. ASSUME NEW a \in Node, NEW s \in Node
         PROVE  /\ a = n /\ x.src = s => Nos(log'[a], s) = Nos(log[a], s) \cup {v}
                /\ ~(a = n /\ x.src = s) => Nos(log'[a], s) = Nos(log[a], s)
    <2>1. CASE a = n
      <3>1. /\ x.src = s => Nos(Append(log[n], x), s) = Nos(log[n], s) \cup {x.no}
            /\ x.src # s => Nos(Append(log[n], x), s) = Nos(log[n], s)
        BY <1>6, NosAppend
      <3> QED
        BY <1>2, <1>7, <2>1, <3>1
    <2>2. CASE a # n
      <3>1. log'[a] = log[a]
        BY <1>2, <2>2
      <3> QED
        BY <2>2, <3>1
    <2> QED
      BY <2>1, <2>2
  <1>11. ASSUME NEW e \in End, NEW s \in Node, e # d
         PROVE  /\ e \in to /\ x.src = s => Nos(stream'[e], s) = Nos(stream[e], s) \cup {v}
                /\ ~(e \in to /\ x.src = s) => Nos(stream'[e], s) = Nos(stream[e], s)
    <2>1. CASE e \in to
      <3>1. /\ x.src = s => Nos(Append(stream[e], x), s) = Nos(stream[e], s) \cup {x.no}
            /\ x.src # s => Nos(Append(stream[e], x), s) = Nos(stream[e], s)
        BY <1>6, NosAppend
      <3>2. stream'[e] = Append(stream[e], x)
        BY <1>2, <2>1
      <3> QED
        BY <1>7, <2>1, <3>1, <3>2
    <2>2. CASE e \notin to
      <3>1. stream'[e] = stream[e]
        BY <1>2, <1>11, <2>2
      <3> QED
        BY <2>2, <3>1
    <2> QED
      BY <2>1, <2>2
  <1>12. ASSUME NEW e \in End, NEW s \in Node, remote[e.by] # None, Away(e, s)
         PROVE  /\ e \in to /\ x.src = s => Due(e, s)' = Due(e, s) \cup {v}
                /\ ~(e \in to /\ x.src = s) => Due(e, s)' = Due(e, s)
    <2>0. /\ At(Far(e)) \in Node
          /\ Due(e, s)' = Nos(log'[At(Far(e))], s) \cup Nos(stream'[e], s)
          /\ Due(e, s) = Nos(log[At(Far(e))], s) \cup Nos(stream[e], s)
      BY <1>5, <1>12, AtFacts DEF Due
    <2>1. CASE e = d
      <3>0. At(Far(e)) = n /\ e \notin to
        BY <1>2, <2>1
      <3>1. CASE x.src = s
        <4>1. Nos(log'[n], s) = Nos(log[n], s) \cup {v}
          BY <1>10, <3>1
        <4>2. Nos(stream[d], s) = Nos(stream'[d], s) \cup {v}
          BY <1>8, <3>1
        <4> QED
          BY <2>0, <2>1, <3>0, <4>1, <4>2
      <3>2. CASE x.src # s
        <4>1. Nos(log'[n], s) = Nos(log[n], s) /\ Nos(stream[d], s) = Nos(stream'[d], s)
          BY <1>8, <1>10, <3>2
        <4> QED
          BY <2>0, <2>1, <3>0, <4>1
      <3> QED
        BY <3>1, <3>2
    <2>2. CASE e # d
      <3>1. ~(At(Far(e)) = n /\ x.src = s)
        BY <1>2, <1>12, <2>2
      <3>2. Nos(log'[At(Far(e))], s) = Nos(log[At(Far(e))], s)
        BY <1>10, <2>0, <3>1
      <3>3. /\ e \in to /\ x.src = s => Nos(stream'[e], s) = Nos(stream[e], s) \cup {v}
            /\ ~(e \in to /\ x.src = s) => Nos(stream'[e], s) = Nos(stream[e], s)
        BY <1>11, <2>2
      <3> QED
        BY <2>0, <3>2, <3>3
    <2> QED
      BY <2>1, <2>2
  \* The piece before x of the same sender, if this process has any, is here.
  <1>13. /\ \A w \in Nos(log[n], x.src) : w < v /\ w \in Nat
         /\ Nos(log[n], x.src) # {} => v - 1 \in Nos(log[n], x.src)
    <2>1. v \in Nos(stream[d], x.src)
      BY <1>2, <1>8
    <2>2. ASSUME NEW w \in Nos(log[n], x.src)
          PROVE  w < v /\ w \in Nat
      <3>1. w < v
        BY <1>2, <2>1, NosFlow
      <3>2. w \in Nat
        BY <1>6, NosText
      <3> QED
        BY <3>1, <3>2
    <2>3. ASSUME NEW w \in Nos(log[n], x.src)
          PROVE  v - 1 \in Nos(log[n], x.src)
      <3>1. w \in Due(d, x.src) /\ v \in Due(d, x.src)
        BY <1>2, <2>1 DEF Due
      <3>2. Unbroken(d, x.src)
        BY <1>2, HolesWords
      <3>3. w..v \subseteq Due(d, x.src)
        BY <3>1, <3>2 DEF Unbroken
      <3>4. v - 1 \in w..v /\ v - 1 # v /\ ~(v < v - 1)
        BY <1>7, <2>2
      <3>5. v - 1 \notin Nos(stream'[d], x.src)
        BY <1>9, <3>4
      <3>6. v - 1 \notin Nos(stream[d], x.src)
        BY <1>2, <1>8, <3>4, <3>5
      <3> QED
        BY <1>2, <3>3, <3>4, <3>6 DEF Due
    <2> QED
      BY <2>2, <2>3
  <1>14. ASSUME NEW e \in End, NEW s \in Node, remote[e.by] # None, Away(e, s)
         PROVE  Unbroken(e, s)'
    <2>1. Unbroken(e, s) /\ At(e) \in Node
      BY <1>14, HolesWords, AtFacts
    <2>2. CASE e \in to /\ x.src = s
      <3>1. At(e) = n /\ e \in peers
        BY <1>2, <2>2
      <3>2. PICK K : K = Nos(log[n], s)
        OBVIOUS
      <3>3. Due(e, s) \subseteq K
        <4>1. /\ Nos(log[At(Far(e))], s) \subseteq Nos(log[At(e)], s)
              /\ Nos(stream[e], s) \subseteq Nos(log[At(e)], s)
          BY <1>14, NosFlow
        <4> QED
          BY <3>1, <3>2, <4>1 DEF Due
      <3>4. PICK lo \in Nat : lo = v - 1
        BY <1>7
      <3>5. /\ lo < v /\ (lo + 1)..v = {v}
            /\ K \subseteq 0..lo
            /\ K # {} => lo \in K
        <4>1. /\ \A w \in K : w < v /\ w \in Nat
              /\ K # {} => v - 1 \in K
          BY <1>13, <2>2, <3>2
        <4>2. lo < v /\ (lo + 1)..v = {v}
          BY <3>4
        <4>3. ASSUME NEW w \in K PROVE w \in 0..lo
          BY <3>4, <4>1
        <4> QED
          BY <3>4, <4>1, <4>2, <4>3
      <3>6. Nos(log'[At(e)'], s) = K \cup {v}
        BY <1>5, <1>10, <2>2, <3>1, <3>2
      <3>7. Due(e, s)' = Due(e, s) \cup {v}
        BY <1>12, <1>14, <2>2
      <3>8. K = Nos(log[At(e)], s) /\ (Due(e, s) # {} => lo \in K)
        BY <3>1, <3>2, <3>3, <3>5
      <3> QED
        BY <2>1, <3>1, <3>3, <3>5, <3>6, <3>7, <3>8, UnbrokenGrows
    <2>3. CASE ~(e \in to /\ x.src = s)
      <3>1. Due(e, s)' = Due(e, s)
        BY <1>12, <1>14, <2>3
      <3>2. ~(e = r /\ x.src = s)
        BY <1>2, <1>14, EndFacts
      <3>3. e \in peers' => e \in peers /\ Nos(log'[At(e)'], s) = Nos(log[At(e)], s)
        BY <1>3, <1>4, <1>5, <1>10, <2>1, <2>3, <3>2 DEF PeersOf
      <3> QED
        BY <2>1, <3>1, <3>3 DEF Unbroken
    <2> QED
      BY <2>2, <2>3
  <1>15. NoHoles'
    <2>1. \A e \in End : \A s \in Node : remote'[e.by] # None /\ Away(e, s)' => Unbroken(e, s)'
      BY <1>4, <1>5, <1>14
    <2> QED
      BY <2>1 DEF NoHoles, Unbroken
  <1>16. Whole'
    <2>1. ASSUME NEW a \in Node
          PROVE  Nos(log'[a], a) = 1..typed'[a]
      BY <1>2, <1>4, <1>10 DEF Whole
    <2>2. ASSUME NEW e \in backlog', NEW s \in Node, Away(e, s)'
          PROVE  Due(e, s)' = {}
      <3>1. e \in backlog /\ Away(e, s)
        BY <1>4, <1>5, <2>2
      <3>2. e \in End /\ remote[e.by] # None /\ Due(e, s) = {}
        BY <3>1, PeerFacts DEF Whole
      <3>3. e \notin to
        BY <1>2, <3>1 DEF Sizes
      <3> QED
        BY <1>12, <3>1, <3>2, <3>3
    <2> QED
      BY <2>1, <2>2 DEF Whole
  <1> QED
    BY <1>15, <1>16

\* No step that closes no ring opens a hole.
LEMMA HolesStep ==
    ASSUME TypeOK, Sizes, NoRing, Forest, Flow, Whole, NoHoles, [Next]_vars, NoRing'
    PROVE  Whole' /\ NoHoles'
  <1>1. ASSUME UNCHANGED <<remote, anc, log, typed, stream>>, peers' \subseteq peers, backlog' \subseteq backlog
        PROVE  Whole' /\ NoHoles'
    <2>1. \A e \in End : \E k \in Nat : k <= Len(stream[e]) /\ stream'[e] = SubSeq(stream[e], 1, k)
      BY <1>1, SameStreams
    <2> QED
      BY <1>1, <2>1, HolesKept
  <1>2. CASE UNCHANGED vars \/ \E n \in Node : Listen(n) \/ StartAlone(n) \/ StartFails(n)
    BY <1>1, <1>2 DEF vars, Listen, StartAlone, StartFails
  <1>3. CASE \E e \in End : WritePiece(e)
    BY <1>1, <1>3 DEF WritePiece
  <1>4. CASE (\E e \in End : Drop(e)) \/ (\E n \in Node : Exit(n))
    BY <1>4, CloseEffect, HolesKept
  <1>5. CASE \E n \in Node : TypeLine(n)
    BY <1>5, HolesType
  <1>6. CASE \E e \in End : ReadPiece(e)
    BY <1>6, HolesRead
  <1>7. CASE \E n, r \in Node : StartDial(n, r)
    BY <1>7, HolesDial
  <1>8. CASE \E e \in End : Accept(e)
    BY <1>8, HolesAccept
  <1> QED
    BY <1>2, <1>3, <1>4, <1>5, <1>6, <1>7, <1>8 DEF Next

-----------------------------------------------------------------------------
(* The theorems.                                                           *)

\* It holds while no process runs.
LEMMA InvInit == Init => IInv
  <1> SUFFICES ASSUME Init PROVE IInv
    OBVIOUS
  <1>1. Routing
    BY RoutingInit
  <1>2. /\ \A n \in Node : log[n] = <<>> /\ typed[n] = 0 /\ remote[n] = None
        /\ backlog = {}
    BY DEF Init
  <1>none. 1..0 = {}
    OBVIOUS
  <1>3. Text(<<>>) = {}
    BY DEF Text
  <1>4. Arrived /\ Causal
    BY <1>2, <1>3 DEF Arrived, Causal
  <1>5. NoHoles
    BY <1>2, EndFacts DEF NoHoles
  <1>6. Whole
    BY <1>2, <1>none, NosEmpty DEF Whole
  <1> QED
    BY <1>1, <1>4, <1>5, <1>6 DEF IInv

\* Every step keeps it, and a ring once closed is never opened.
LEMMA InvStep == IInv /\ [Next]_vars => IInv'
  <1> SUFFICES ASSUME IInv, [Next]_vars PROVE IInv'
    OBVIOUS
  <1>1. Routing /\ Routing'
    BY RoutingStep DEF IInv
  <1>2. ASSUME NoRing'
        PROVE  Arrived' /\ Causal' /\ Whole' /\ NoHoles'
    <2>1. TypeOK /\ Sizes /\ NoRing
      BY <1>1, <1>2, RingStays DEF Routing
    <2>2. Forest /\ Flow /\ Arrived /\ Causal /\ Whole /\ NoHoles
      BY <1>1, <2>1 DEF Routing, IInv
    <2> QED
      BY <1>2, <2>1, <2>2, CausalStep, HolesStep
  <1>3. NoHoles'
    BY <1>2 DEF NoHoles
  <1> QED
    BY <1>1, <1>2, <1>3 DEF IInv

\* As long as no dial has closed a ring, the network is a forest in which text
\* flows away from its sender, each piece after what it answers and right after
\* the one before it.
THEOREM Inductive == Spec => []IInv
  <1>1. Init => IInv
    BY InvInit
  <1>2. IInv /\ [Next]_vars => IInv'
    BY InvStep
  <1> QED
    BY <1>1, <1>2, PTL DEF Spec

\* However many processes there are, whoever exits and whatever connection is
\* lost, as long as no dial has closed a ring: no user sees an answer before what
\* it answers.
THEOREM CausallyOrdered == Spec => []CausalOrder
  <1>1. IInv => CausalOrder
    <2> SUFFICES ASSUME IInv, NoRing, NEW n \in Node, NEW s \in Node,
                        NEW i \in 1..Len(log[s]), NEW k \in 1..Len(log[s]), i < k, log[s][k].src = s
                 PROVE  \A a, b \in 1..Len(log[n]) :
                           log[n][a] = log[s][i] /\ log[n][b] = log[s][k] => a < b
      BY DEF CausalOrder
    <2> DEFINE t == log[s]
               p == t[i]
               q == t[k]
    <2>1. t \in Seq(Piece) /\ Ordered(t) /\ Causal
      <3>1. TypeOK /\ Flow /\ Causal
        BY DEF IInv, Routing
      <3> QED
        BY <3>1 DEF TypeOK, Flow
    <2>2. p \in Text(t) /\ q \in Text(t) /\ q.src = s
      BY DEF Text
    \* A piece stands in a log once.
    <2>3. ASSUME NEW x \in 1..Len(t), NEW y \in 1..Len(t), t[x] = t[y]
          PROVE  x = y
      <3>1. Len(t) \in Nat /\ t[x] \in Piece /\ t[y] \in Piece
        BY <2>1
      <3> HIDE DEF t
      <3>2. ~(x < y) /\ ~(y < x)
        BY <2>1, <2>3, <3>1 DEF Ordered, Piece
      <3> QED
        BY <3>1, <3>2
    <2>4. Before(t, p, q)
      BY <2>3 DEF Before
    <2>5. Before(log[n], p, q)
      BY <2>1, <2>2, <2>4 DEF Causal
    <2> QED
      BY <2>5 DEF Before
  <1> QED
    BY <1>1, Inductive, PTL

\* Nor, in the same cases, does anybody miss a piece between two that he has seen
\* or will see.
THEOREM NothingMissing == Spec => []NoHoles
  <1>1. IInv => NoHoles
    BY DEF IInv
  <1> QED
    BY <1>1, Inductive, PTL
=============================================================================
